---- MODULE Spec2Model ----
(***************************************************************************)
(* A model of the CodeSwitch virtual machine core: the managed heap        *)
(* (chunks, bitmaps, mark-sweep collector, handle table), the bytecode     *)
(* verifier and the interpreter.                                           *)
(*                                                                         *)
(* Addresses are byte addresses.  The chunk geometry is scaled down: a     *)
(* chunk has DataOffsetWords words of bitmap area followed by DataWords    *)
(* words of data (the program has 4096 and 126976), and the largest block  *)
(* is MaxBlockWords words (the program has 16384), and the first          *)
(* collection is due at InitialLimitWords words (the program has 131072).  *)
(* Machine words are WordBits wide (the program has 64).                   *)
(*                                                                         *)
(* The verifier runs on programs of up to MaxInsts instructions over the   *)
(* core opcodes with up to MaxBranches branches, on programs of up to      *)
(* ShortInsts instructions over all opcodes, and on loops.  The            *)
(* interpreter's Stack has StackWords words (the program has 512); its     *)
(* entry functions are the accepted ones among these programs and among    *)
(* straight-line programs of up to InterpInsts instructions and a ret.     *)
(***************************************************************************)
EXTENDS Integers, Sequences, FiniteSets, TLC

\* ---------------------------------------------------------------- bounds
DataOffsetWords == 2
DataWords == 4
MaxChunks == 2
MaxHandles == 2
MaxMarkStack == 8
MaxBlockWords == 3
MaxOps == 5
InitialLimitWords == 8
WordBits == 12

\* Bounds of the verifier inputs: instructions per program over the core
\* opcodes, instructions per program over all opcodes, branches per program.
MaxInsts == 4
ShortInsts == 2
MaxBranches == 1

\* Bounds of the interpreter: words of the Stack (kStackSize / kWordSize in
\* the code), instructions of a straight-line entry function before its ret.
StackWords == 12
InterpInsts == 3

\* Bound of the package files: functions per package.
MaxFunctions == 2
\* Section headers of a file made by hand.
MaxSections == 3
\* Operations called on a package after it was read.
MaxCalls == 2

\* Bounds of the Assembler: bytes per Fragment (4088 in the code), labels,
\* and bytes of code emitted.
FragmentBytes == 7
MaxLabels == 2
MaxAsmBytes == 16
\* Most entries of a safepoint table.
MaxEntries == 4
\* Largest instOffset of an entry.
MaxInstOffset == 6
\* Functions in a source file of assembly text.
MaxAsmFunctions == 2
\* The address a package file is mapped at (file_.data).
FileData == 1024

\* ------------------------------------------------------ program constants
kWordSize == 8
kBlockAlignment == 8

WordMod == 2 ^ WordBits
kDataOffset == DataOffsetWords * kWordSize
kSize == kDataOffset + DataWords * kWordSize
kWordsInChunk == kSize \div kWordSize
kMinAddress == kSize
kZeroAllocAddress == kMinAddress
kInitialAllocationLimit == InitialLimitWords * kWordSize
kMaxBlockSize == MaxBlockWords * kWordSize

\* Sizes a mutator asks for, and where the platform places chunks and the
\* handle table's slot storage.
AllocSizes == {0, 1, 9, 16, 17, 25}
ChunkIds == 2 .. (MaxChunks + 1)
ChunkBase(id) == id * kSize
kSlotBase == (MaxChunks + 2) * kSize
SlotAddr(i) == kSlotBase + (i - 1) * kWordSize
SlotIndex(a) == ((a - kSlotBase) \div kWordSize) + 1
\* Where a Ptr<T> local of the mutator lies on the C++ stack: a word of the
\* region after the slot storage, outside every chunk.
kStackPtr == (MaxChunks + 3) * kSize + kDataOffset

align(n, alignment) == ((n + alignment - 1) \div alignment) * alignment
SubW(a, b) == (a - b + WordMod) % WordMod

VARIABLES
    chunks,          \* mapped chunks: base address -> header fields
    chunksBySize,    \* Heap::chunksBySize_: block size -> list of chunk pointers
    mem,             \* data words of every chunk address: address -> word
    ptrBits,         \* pointer bitmap: word addresses whose bit is set
    markBits,        \* mark bitmap: word addresses whose bit is set
    bytesAllocated_, \* Heap::bytesAllocated_
    allocationLimit_,\* Heap::allocationLimit_
    gcPhase_,        \* Heap::gcPhase_
    markStack_,      \* Heap::markStack_
    slots_,          \* HandleStorage::slots_
    free_,           \* HandleStorage::free_
    handles,         \* the mutator's Handle objects: id -> slot_ (0 = empty)
    rootFields,      \* Roots::unitType, boolType, int64Type
    fresh,           \* the block the mutator got from its last allocate
    pc,              \* "idle", "mark" (collector running), "resume", "crashed"
    pending,         \* block size of the allocate waiting for the collector
    last,            \* what the last completed operation did and returned
    ops,             \* how many operations the mutator has started
    \* Function::validate
    fn,              \* the Function: insts, paramTypes, returnTypes, safepoints
    blocks,          \* validate's vector of ValidationBlock, sorted by begin
    blockStack,      \* validate's worklist of indices into blocks
    vpc,             \* "loop", "safepoints", "accepted", "rejected", "crashed", or "off"
    verr,            \* the ValidateError raised: what it reports and the offset it cites
    trace,           \* every instruction validate reached, with the types before it
    edges,           \* every branch edge checkBranch let pass: target, types, frameSize
    \* interpret
    entry,           \* the entry Function
    cur,             \* the fn register: the id of the function being run
    ip,              \* byte offset of the current instruction in that function
    sp,              \* stack pointer, as a word index into the stack
    fp,              \* frame pointer, as a word index into the stack
    stack,           \* the words of the Stack
    out,             \* the values written to the output stream
    ipc,             \* "run", "returned", "exited", "overflow", "crashed",
                     \* "wild" (running outside the function), or "off"
    \* Package::writeToFile and Package::readFromFile
    package1,        \* functions_ of the package that is written
    tmpFile,         \* the bytes of the file
    package2,        \* the package read back: section headers and functions_
    iopc,            \* "made", "written", "read", "failed", "crashed", "blocked",
                     \* "aborted", or "off"
    mu_,             \* Package::mu_ of package2: "free" or "held"
    ret,             \* what the last operation on package2 gave its caller
    calls,           \* operations called on package2 so far
    \* Assembler
    fragments_,      \* Assembler::fragments_: the bytes of each Fragment
    size_,           \* Assembler::size_
    labels,          \* the Labels: offset_ and bound_
    uses,            \* every branch emitted: its label and its opcode's offset
    bindings,        \* the offset at which each label was bound, -1 if unbound
    apc,             \* "on" or "off"
    \* Safepoints::lookup in progress
    entries_,        \* the instOffset of each entry of data_, in table order
    lkInstOffset,    \* lookup's argument instOffset
    lkBegin,         \* lookup's local begin
    lkEnd,           \* lookup's local end
    lkResult,        \* the index lookup returned
    lpc,             \* "loop", "returned", "unreachable" or "off"
    \* writePackageAsm and readPackageAsm
    asmFiles,        \* the text of the files readFile can open, by path
    dis,             \* the text in the stream writePackageAsm wrote
    asmPackage1,     \* the package assembled from the source file
    asmPackage2,     \* what readPackageAsm returned or raised
    lexer,           \* the AsmLexer at work: data_, i and the tokens so far
    tpc,             \* where the assemble-and-write-back run is, or "off"
    \* two mutator threads on the one heap
    locals,          \* per thread: the pointer its last Heap::allocate returned
    holder,          \* the thread inside Heap::allocate, holding Heap::mu_; 0 if none
    \* two threads on the handle table
    slotMu,          \* the thread holding HandleStorage::mu_; 0 if none
    hpc              \* per thread: the HandleStorage function it is in

heapVars == <<chunks, chunksBySize, mem, ptrBits, markBits, bytesAllocated_,
              allocationLimit_, gcPhase_, markStack_, slots_, free_, handles,
              rootFields, fresh, pc, pending, last, ops>>

verifyVars == <<fn, blocks, blockStack, vpc, verr, trace, edges>>

interpVars == <<entry, cur, ip, sp, fp, stack, out, ipc>>

packageVars == <<package1, tmpFile, package2, iopc, mu_, ret, calls>>

assemblerVars == <<fragments_, size_, labels, uses, bindings, apc>>
lookupVars == <<entries_, lkInstOffset, lkBegin, lkEnd, lkResult, lpc>>
textVars == <<asmFiles, dis, asmPackage1, asmPackage2, lexer, tpc>>
threadVars == <<locals, holder>>
handleVars == <<slotMu, hpc>>

vars == <<heapVars, verifyVars, interpVars, packageVars, assemblerVars, lookupVars,
          textVars, threadVars, handleVars>>

\* What the operations of one part leave alone: the variables of the others.
notHeap == <<verifyVars, interpVars, packageVars, assemblerVars, lookupVars,
  textVars, threadVars, handleVars>>
notVerify == <<heapVars, interpVars, packageVars, assemblerVars, lookupVars,
  textVars, threadVars, handleVars>>
notInterp == <<heapVars, verifyVars, packageVars, assemblerVars, lookupVars,
  textVars, threadVars, handleVars>>
notPackage == <<heapVars, verifyVars, interpVars, assemblerVars, lookupVars,
  textVars, threadVars, handleVars>>
notAssembler == <<heapVars, verifyVars, interpVars, packageVars, lookupVars,
  textVars, threadVars, handleVars>>
notLookup == <<heapVars, verifyVars, interpVars, packageVars, assemblerVars, textVars,
  threadVars, handleVars>>
notText == <<heapVars, verifyVars, interpVars, packageVars, assemblerVars, lookupVars,
  threadVars, handleVars>>
notThreads == <<verifyVars, interpVars, packageVars, assemblerVars, lookupVars, textVars,
  handleVars>>
notHandles == <<verifyVars, interpVars, packageVars, assemblerVars, lookupVars, textVars,
  threadVars>>

\* ----------------------------------------------------------------- chunk
DataAddrs(base) == {base + kDataOffset + i * kWordSize : i \in 0 .. (DataWords - 1)}
AllDataAddrs == UNION {DataAddrs(ChunkBase(id)) : id \in ChunkIds}

\* Chunk::fromAddress
fromAddress(addr) == (addr \div kSize) * kSize

IsMapped(base) == base \in DOMAIN chunks

\* Chunk::blockContaining
ChunkBlockContaining(c, p) ==
    LET base == c + kDataOffset
        offset == SubW(p, base)
    IN  base + ((offset \div chunks[c].blockSize_) * chunks[c].blockSize_)

\* Heap::blockContaining
blockContaining(p) ==
    IF p = kZeroAllocAddress THEN kZeroAllocAddress
    ELSE ChunkBlockContaining(fromAddress(p), p)

\* Heap::blockSize
blockSize(p) ==
    IF p = kZeroAllocAddress THEN 0 ELSE chunks[fromAddress(p)].blockSize_

WordsOfBlock(b, size) == {b + i * kWordSize : i \in 0 .. ((size \div kWordSize) - 1)}

\* Chunk::Chunk
NewChunk(base, bs) ==
    [blockSize_ |-> bs, bytesAllocated_ |-> 0, freeList_ |-> 0,
     freeSpace_ |-> base + kDataOffset]

\* Chunk::allocate that hands out the block at the free frontier and leaves
\* the frontier where it was.
ChunkAllocateNoBump(c, hdr, m) ==
    IF hdr.freeSpace_ + hdr.blockSize_ <= c + kSize
    THEN [block |-> hdr.freeSpace_,
          hdr |-> [hdr EXCEPT !.bytesAllocated_ = @ + hdr.blockSize_],
          mem |-> m]
    ELSE [block |-> 0, hdr |-> hdr, mem |-> m]

\* Chunk::allocate on the chunk at base c, in memory m: the block (0 if the
\* chunk is full), the new header and the new memory.
ChunkAllocate(c, hdr, m) ==
    IF hdr.freeList_ # 0
    THEN [block |-> hdr.freeList_,
          hdr |-> [hdr EXCEPT !.freeList_ = m[hdr.freeList_],
                              !.bytesAllocated_ = @ + hdr.blockSize_],
          mem |-> [m EXCEPT ![hdr.freeList_] = 0]]
    ELSE IF hdr.freeSpace_ + hdr.blockSize_ <= c + kSize
    THEN [block |-> hdr.freeSpace_,
          hdr |-> [hdr EXCEPT !.freeSpace_ = @ + hdr.blockSize_,
                              !.bytesAllocated_ = @ + hdr.blockSize_],
          mem |-> m]
    ELSE [block |-> 0, hdr |-> hdr, mem |-> m]

\* Chunk::hasMark
hasMark(c, mb) == \E a \in mb : fromAddress(a) = c

\* ------------------------------------------------------------------ sweep
beginIndex == kDataOffset \div kWordSize

\* Chunk::sweep, first loop: the free space grows downward over unmarked
\* blocks.  The result is the new free index, or -1 when Bitmap::at aborts
\* on an index outside the bitmap.
RECURSIVE ExpandFreeSpace(_, _, _, _)
ExpandFreeSpace(c, freeIndex, wordsPerBlock, mb) ==
    IF freeIndex > beginIndex
    THEN LET prevIndex == SubW(freeIndex, wordsPerBlock)
         IN  IF prevIndex >= kWordsInChunk THEN -1
             ELSE IF (c + prevIndex * kWordSize) \in mb THEN freeIndex
             ELSE ExpandFreeSpace(c, prevIndex, wordsPerBlock, mb)
    ELSE freeIndex

\* A sweep whose second loop puts nothing on the free list.
RebuildFreeListSkip(c, blockIndex, wordsPerBlock, mb, st) == st

\* A second loop of Chunk::sweep that links an unmarked block into the free
\* list and leaves its pointer bits as they were.
RECURSIVE RebuildFreeListKeepBits(_, _, _, _, _)
RebuildFreeListKeepBits(c, blockIndex, wordsPerBlock, mb, st) ==
    IF blockIndex < beginIndex THEN st
    ELSE IF blockIndex >= kWordsInChunk THEN [st EXCEPT !.ok = FALSE]
    ELSE LET a == c + blockIndex * kWordSize
             rest == {a + i * kWordSize : i \in 1 .. (wordsPerBlock - 1)}
             next == SubW(blockIndex, wordsPerBlock)
         IN  IF a \in mb
             THEN RebuildFreeListKeepBits(c, next, wordsPerBlock, mb,
                     [st EXCEPT !.bytes = @ + wordsPerBlock * kWordSize])
             ELSE RebuildFreeListKeepBits(c, next, wordsPerBlock, mb,
                     [st EXCEPT !.mem = [w \in DOMAIN st.mem |->
                                           IF w = a THEN st.freeList
                                           ELSE IF w \in rest THEN 0
                                           ELSE st.mem[w]],
                                !.freeList = a])

\* Chunk::sweep, second loop: every unmarked block below the free space goes
\* on the free list.  blockIndex is unsigned: below zero it wraps.
RECURSIVE RebuildFreeList(_, _, _, _, _)
RebuildFreeList(c, blockIndex, wordsPerBlock, mb, st) ==
    IF blockIndex < beginIndex THEN st
    ELSE IF blockIndex >= kWordsInChunk THEN [st EXCEPT !.ok = FALSE]
    ELSE LET a == c + blockIndex * kWordSize
             rest == {a + i * kWordSize : i \in 1 .. (wordsPerBlock - 1)}
             next == SubW(blockIndex, wordsPerBlock)
         IN  IF a \in mb
             THEN RebuildFreeList(c, next, wordsPerBlock, mb,
                     [st EXCEPT !.bytes = @ + wordsPerBlock * kWordSize])
             ELSE RebuildFreeList(c, next, wordsPerBlock, mb,
                     [st EXCEPT !.ptr = @ \ ({a} \cup rest),
                                !.mem = [w \in DOMAIN st.mem |->
                                           IF w = a THEN st.freeList
                                           ELSE IF w \in rest THEN 0
                                           ELSE st.mem[w]],
                                !.freeList = a])

\* Chunk::sweep on the chunk at c with header hdr.
ChunkSweep(c, hdr, m, pb, mb) ==
    LET wordsPerBlock == hdr.blockSize_ \div kWordSize
        origFreeIndex == (hdr.freeSpace_ - c) \div kWordSize
        freeIndex == ExpandFreeSpace(c, origFreeIndex, wordsPerBlock, mb)
        freed == {c + i * kWordSize : i \in freeIndex .. (origFreeIndex - 1)}
        st0 == [ok |-> TRUE, bytes |-> 0, freeList |-> 0,
                mem |-> [w \in DOMAIN m |-> IF w \in freed THEN 0 ELSE m[w]],
                ptr |-> pb \ freed]
        st == IF freeIndex = -1 THEN [st0 EXCEPT !.ok = FALSE]
              ELSE RebuildFreeList(c, SubW(freeIndex, wordsPerBlock),
                                   wordsPerBlock, mb, st0)
    IN  [ok |-> st.ok,
         hdr |-> [hdr EXCEPT !.freeSpace_ = c + freeIndex * kWordSize,
                             !.bytesAllocated_ = st.bytes,
                             !.freeList_ = st.freeList],
         mem |-> st.mem,
         ptr |-> st.ptr,
         mark |-> {a \in mb : fromAddress(a) # c}]

\* std::remove_if over a list of unique_ptr<Chunk> (0 is the null pointer):
\* kept pointers move to the front, a pointer moved over is deleted, a
\* pointer moved from is left null.  first and i are the two cursors.
RECURSIVE RemoveIfFrom(_, _, _, _, _)
RemoveIfFrom(list, first, i, deleted, mb) ==
    IF i > Len(list) THEN [list |-> list, deleted |-> deleted]
    ELSE IF hasMark(list[i], mb)
    THEN RemoveIfFrom([list EXCEPT ![first] = list[i], ![i] = 0],
                      first + 1, i + 1,
                      deleted \cup ({list[first]} \ {0}), mb)
    ELSE RemoveIfFrom(list, first, i + 1, deleted, mb)

RemoveIfNoMark(list, mb) ==
    LET unmarked == {k \in 1 .. Len(list) : ~hasMark(list[k], mb)}
    IN  IF unmarked = {} THEN [list |-> list, deleted |-> {}]
        ELSE LET first == CHOOSE k \in unmarked : \A j \in unmarked : k <= j
             IN  RemoveIfFrom(list, first, first + 1, {}, mb)

\* The loop over one chunk list in Heap::sweepLocked: sweep every element.
\* Calling sweep through a null unique_ptr ends the process.
RECURSIVE SweepList(_, _, _)
SweepList(list, k, st) ==
    IF k > Len(list) \/ ~st.ok THEN st
    ELSE IF list[k] = 0 THEN [st EXCEPT !.ok = FALSE]
    ELSE LET r == ChunkSweep(list[k], st.chunks[list[k]], st.mem, st.ptr, st.mark)
         IN  SweepList(list, k + 1,
                 [st EXCEPT !.ok = r.ok,
                            !.chunks = [@ EXCEPT ![list[k]] = r.hdr],
                            !.mem = r.mem, !.ptr = r.ptr, !.mark = r.mark,
                            !.bytes = @ + r.hdr.bytesAllocated_])

\* Unmapping a chunk gives its memory back to the platform.
Unmap(st, gone) ==
    [st EXCEPT !.chunks = [c \in (DOMAIN st.chunks) \ gone |-> st.chunks[c]],
               !.mem = [w \in DOMAIN st.mem |->
                           IF fromAddress(w) \in gone THEN 0 ELSE st.mem[w]],
               !.ptr = {a \in st.ptr : fromAddress(a) \notin gone},
               !.mark = {a \in st.mark : fromAddress(a) \notin gone}]

\* Heap::sweepLocked over the block sizes in todo.
RECURSIVE SweepSizes(_, _)
SweepSizes(todo, st) ==
    IF todo = {} \/ ~st.ok THEN st
    ELSE LET bs == CHOOSE x \in todo : \A y \in todo : x <= y
             rm == RemoveIfNoMark(st.lists[bs], st.mark)
             st1 == Unmap([st EXCEPT !.lists = [@ EXCEPT ![bs] = rm.list]],
                          rm.deleted)
         IN  SweepSizes(todo \ {bs}, SweepList(rm.list, 1, st1))

sweepLocked ==
    SweepSizes(DOMAIN chunksBySize,
               [ok |-> TRUE, chunks |-> chunks, lists |-> chunksBySize,
                mem |-> mem, ptr |-> ptrBits, mark |-> markBits, bytes |-> 0])

\* ------------------------------------------------------------------- roots
RootTypeSize == 4

\* HandleStorage::accept: the slots whose low bit is clear, in slot order.
RECURSIVE HandleRoots(_, _)
HandleRoots(sl, k) ==
    IF k > Len(sl) THEN <<>>
    ELSE IF sl[k] % 2 = 0 THEN <<sl[k]>> \o HandleRoots(sl, k + 1)
    ELSE HandleRoots(sl, k + 1)

\* Every value the registered acceptors pass to the visitor, in
\* registration order (HandleStorage, then Roots).
RootValues == HandleRoots(slots_, 1) \o rootFields

\* An address inside the data area of a mapped chunk.
IsHeapAddr(p) ==
    /\ IsMapped(fromAddress(p))
    /\ p >= fromAddress(p) + kDataOffset

\* Heap::scanRootsLocked: the visitor pushes every root that is not marked.
\* isMarked reads the chunk the root lies in; a root outside every mapped
\* chunk (null, kZeroAllocAddress) makes that read fault.
RECURSIVE ScanRoots(_, _, _)
ScanRoots(rv, k, st) ==
    IF k > Len(rv) \/ ~st.ok THEN st
    ELSE IF ~IsMapped(fromAddress(rv[k])) THEN [st EXCEPT !.ok = FALSE]
    ELSE IF rv[k] \in markBits THEN ScanRoots(rv, k + 1, st)
    ELSE ScanRoots(rv, k + 1, [st EXCEPT !.stack = Append(@, rv[k])])

scanRootsLocked == ScanRoots(RootValues, 1, [ok |-> TRUE, stack |-> markStack_])

\* The inner loop of Heap::markLocked over the words slot .. end of a block.
RECURSIVE ScanBlock(_, _, _, _)
ScanBlock(slot, end, mb, st) ==
    IF slot >= end \/ ~st.ok THEN st
    ELSE IF slot \in ptrBits
    THEN LET p == mem[slot]
         IN  IF ~IsMapped(fromAddress(p)) THEN [st EXCEPT !.ok = FALSE]
             ELSE IF p \in mb THEN ScanBlock(slot + kWordSize, end, mb, st)
             ELSE ScanBlock(slot + kWordSize, end, mb,
                            [st EXCEPT !.stack = Append(@, p)])
    ELSE ScanBlock(slot + kWordSize, end, mb, st)

\* A mark loop that marks the popped block and does not scan its words.
markIterationNoScan ==
    [ok |-> TRUE, stack |-> SubSeq(markStack_, 1, Len(markStack_) - 1),
     mark |-> markBits \cup {blockContaining(markStack_[Len(markStack_)])}]

\* One iteration of the loop of Heap::markLocked.
markIteration ==
    LET slot == markStack_[Len(markStack_)]
        begin == blockContaining(slot)
        end == begin + blockSize(begin)
        mb == markBits \cup {begin}
        st == ScanBlock(begin, end, mb,
                        [ok |-> TRUE, stack |-> SubSeq(markStack_, 1, Len(markStack_) - 1)])
    IN  [ok |-> st.ok, stack |-> st.stack, mark |-> mb]

\* -------------------------------------------------------------- allocation
LowestUnusedChunk(cs) ==
    LET unused == {ChunkBase(id) : id \in ChunkIds} \ DOMAIN cs
    IN  IF unused = {} THEN 0
        ELSE CHOOSE c \in unused : \A d \in unused : c <= d

\* Heap::allocate after the collection check, on the heap h: take a block
\* from the first chunk of the size's list that has one, else from a new
\* chunk.  status is "ok", "crash" (a null chunk pointer in the list) or
\* "nochunk" (the platform has no more chunks to give).
AllocateIn(h, bs) ==
    LET list == IF bs \in DOMAIN h.lists THEN h.lists[bs] ELSE <<>>
        hit == {k \in 1 .. Len(list) :
                   \/ list[k] = 0
                   \/ ChunkAllocate(list[k], h.chunks[list[k]], h.mem).block # 0}
        h1 == [h EXCEPT !.bytes = @ + bs]
    IN  IF hit # {}
        THEN LET k == CHOOSE x \in hit : \A y \in hit : x <= y
                 c == list[k]
             IN  IF c = 0 THEN [h1 EXCEPT !.status = "crash"]
                 ELSE LET r == ChunkAllocate(c, h.chunks[c], h.mem)
                      IN  [h1 EXCEPT !.status = "ok", !.block = r.block,
                                     !.chunks = [@ EXCEPT ![c] = r.hdr],
                                     !.mem = r.mem]
        ELSE LET c == LowestUnusedChunk(h.chunks)
             IN  IF c = 0 THEN [h1 EXCEPT !.status = "nochunk"]
                 ELSE LET r == ChunkAllocate(c, NewChunk(c, bs), h.mem)
                      IN  [h1 EXCEPT !.status = "ok", !.block = r.block,
                                     !.chunks = [d \in (DOMAIN h.chunks) \cup {c} |->
                                                    IF d = c THEN r.hdr ELSE h.chunks[d]],
                                     !.lists = [s \in (DOMAIN h.lists) \cup {bs} |->
                                                    IF s = bs THEN Append(list, c)
                                                    ELSE h.lists[s]],
                                     !.mem = r.mem]

EmptyHeap ==
    [status |-> "ok", block |-> 0, chunks |-> <<>>, lists |-> <<>>,
     mem |-> [a \in AllDataAddrs |-> 0], bytes |-> 0]

\* Roots::Roots: three Type blocks, allocated while the collector is locked.
RootsHeap1 == AllocateIn(EmptyHeap, align(RootTypeSize, kBlockAlignment))
RootsHeap2 == AllocateIn(RootsHeap1, align(RootTypeSize, kBlockAlignment))
RootsHeap3 == AllocateIn(RootsHeap2, align(RootTypeSize, kBlockAlignment))

Idle == [op |-> "other", addr |-> 0, size |-> 0]

InitHeap ==
    /\ chunks = RootsHeap3.chunks
    /\ chunksBySize = RootsHeap3.lists
    /\ mem = RootsHeap3.mem
    /\ ptrBits = {}
    /\ markBits = {}
    /\ bytesAllocated_ = RootsHeap3.bytes
    /\ allocationLimit_ = kInitialAllocationLimit
    /\ gcPhase_ = "NONE"
    /\ markStack_ = <<>>
    /\ slots_ = <<>>
    /\ free_ = 0
    /\ handles = [h \in 1 .. MaxHandles |-> 0]
    /\ rootFields = <<RootsHeap1.block, RootsHeap2.block, RootsHeap3.block>>
    /\ fresh = 0
    /\ pc = "idle"
    /\ pending = 0
    /\ last = Idle
    /\ ops = 0

\* ------------------------------------------------------------ reachability
\* The blocks that the pointer-bit words of block b point to or into.
Successors(b) ==
    {blockContaining(mem[w]) :
        w \in {x \in WordsOfBlock(b, blockSize(b)) \cap ptrBits : IsHeapAddr(mem[x])}}

RECURSIVE ReachFrom(_, _)
ReachFrom(todo, seen) ==
    IF todo = {} THEN seen
    ELSE LET b == CHOOSE x \in todo : TRUE
             new == Successors(b) \ (seen \cup {b})
         IN  ReachFrom((todo \ {b}) \cup new, seen \cup {b})

RootBlocks ==
    {blockContaining(RootValues[k]) : k \in {i \in 1 .. Len(RootValues) : IsHeapAddr(RootValues[i])}}

\* Blocks reachable from the registered roots through pointer-bit words.
Reachable == ReachFrom(RootBlocks, {})

\* Blocks the mutator can name: the reachable ones and the one it was just given.
Accessible ==
    ReachFrom(RootBlocks \cup (IF IsHeapAddr(fresh) THEN {fresh} ELSE {}), {})

\* The Type blocks of Roots have no pointer fields; the mutator works on the
\* other blocks.
Writable == Accessible \ {rootFields[k] : k \in 1 .. Len(rootFields)}

\* Every value a pointer variable of the mutator may hold.
Values == {0, kZeroAllocAddress} \cup AllDataAddrs

\* Values the mutator can store: null, any block it can name, an interior
\* address of such a block, and the zero-size sentinel once it was given it.
Storable ==
    {0} \cup Writable
        \cup {b + kWordSize : b \in {x \in Writable : blockSize(x) > kWordSize}}
        \cup (IF fresh = kZeroAllocAddress THEN {kZeroAllocAddress} ELSE {})

\* The free list of the chunk at c, as the set of its blocks.
RECURSIVE FreeListFrom(_, _)
FreeListFrom(a, n) ==
    IF a = 0 \/ n = 0 \/ a \notin DOMAIN mem THEN {}
    ELSE {a} \cup FreeListFrom(mem[a], n - 1)

FreeListBlocks(c) == FreeListFrom(chunks[c].freeList_, DataWords)

\* The chunks the heap owns: the non-null pointers in its chunk lists.
OwnedChunks ==
    UNION {{chunksBySize[s][k] : k \in 1 .. Len(chunksBySize[s])} : s \in DOMAIN chunksBySize} \ {0}

\* A block that has been handed out and not freed since.
IsAllocatedBlock(b) ==
    /\ IsHeapAddr(b)
    /\ fromAddress(b) \in OwnedChunks
    /\ blockContaining(b) = b
    /\ b + blockSize(b) <= chunks[fromAddress(b)].freeSpace_
    /\ b \notin FreeListBlocks(fromAddress(b))

AllocatedBlocks == {b \in AllDataAddrs : IsAllocatedBlock(b)}

\* ------------------------------------------------------------ heap actions
\* The mutator starts at most MaxOps operations; a collection and the
\* allocation that asked for it always run on.
StartOp == ops < MaxOps /\ ops' = ops + 1

Crash ==
    /\ pc' = "crashed"
    /\ UNCHANGED <<chunks, chunksBySize, mem, ptrBits, markBits, bytesAllocated_,
                   allocationLimit_, gcPhase_, markStack_, slots_, free_, handles,
                   rootFields, fresh, pending, last>>

\* Heap::allocate from "bytesAllocated_ += blockSize" on.
FinishAllocate(size, gc) ==
    LET bs == align(size, kBlockAlignment)
        r == AllocateIn([status |-> "ok", block |-> 0, chunks |-> chunks,
                         lists |-> chunksBySize, mem |-> mem,
                         bytes |-> bytesAllocated_], bs)
    IN  /\ r.status # "nochunk"
        /\ IF r.status = "crash" THEN Crash
           ELSE /\ chunks' = r.chunks
                /\ chunksBySize' = r.lists
                /\ mem' = r.mem
                /\ bytesAllocated_' = r.bytes
                /\ fresh' = r.block
                /\ pc' = "idle"
                /\ pending' = 0
                /\ last' = [op |-> "allocate", addr |-> r.block, size |-> size]
                /\ UNCHANGED <<ptrBits, markBits, allocationLimit_, gcPhase_,
                               markStack_, slots_, free_, handles, rootFields>>

\* Heap::collectGarbageLocked up to the mark loop: scanRootsLocked.
StartCollect(size) ==
    LET r == scanRootsLocked
    IN  IF ~r.ok THEN Crash
        ELSE /\ markStack_' = r.stack
             /\ pc' = "mark"
             /\ pending' = size
             /\ UNCHANGED <<chunks, chunksBySize, mem, ptrBits, markBits,
                            bytesAllocated_, allocationLimit_, gcPhase_, slots_,
                            free_, handles, rootFields, fresh, last>>

\* Heap::allocate(size)
Allocate(size) ==
    /\ pc = "idle"
    /\ UNCHANGED notHeap
    /\ StartOp
    /\ LET bs == align(size, kBlockAlignment)
       IN  IF size = 0
           THEN /\ fresh' = kZeroAllocAddress
                /\ last' = [op |-> "allocate", addr |-> kZeroAllocAddress, size |-> 0]
                /\ UNCHANGED <<chunks, chunksBySize, mem, ptrBits, markBits,
                               bytesAllocated_, allocationLimit_, gcPhase_,
                               markStack_, slots_, free_, handles, rootFields,
                               pc, pending>>
           ELSE IF bs > kMaxBlockSize
           THEN /\ last' = [op |-> "AllocationError", addr |-> 0, size |-> size]
                /\ UNCHANGED <<chunks, chunksBySize, mem, ptrBits, markBits,
                               bytesAllocated_, allocationLimit_, gcPhase_,
                               markStack_, slots_, free_, handles, rootFields,
                               fresh, pc, pending>>
           ELSE IF bytesAllocated_ + bs >= allocationLimit_ /\ gcPhase_ = "NONE"
           THEN StartCollect(size)
           ELSE FinishAllocate(size, FALSE)

\* Heap::collectGarbage()
CollectGarbage ==
    /\ pc = "idle"
    /\ UNCHANGED notHeap
    /\ StartOp
    /\ gcPhase_ = "NONE"
    /\ StartCollect(0)

\* One iteration of the loop of Heap::markLocked.
MarkStep ==
    /\ pc = "mark"
    /\ UNCHANGED notHeap
    /\ UNCHANGED ops
    /\ markStack_ # <<>>
    /\ LET r == markIteration
       IN  IF ~r.ok THEN Crash
           ELSE /\ Len(r.stack) <= MaxMarkStack
                /\ markStack_' = r.stack
                /\ markBits' = r.mark
                /\ UNCHANGED <<chunks, chunksBySize, mem, ptrBits, bytesAllocated_,
                               allocationLimit_, gcPhase_, slots_, free_, handles,
                               rootFields, fresh, pc, pending, last>>

\* The mark stack is empty: Heap::sweepLocked, the new allocation limit, and
\* the return of collectGarbageLocked.
SweepStep ==
    /\ pc = "mark"
    /\ UNCHANGED notHeap
    /\ UNCHANGED ops
    /\ markStack_ = <<>>
    /\ LET r == sweepLocked
       IN  IF ~r.ok THEN Crash
           ELSE /\ chunks' = r.chunks
                /\ chunksBySize' = r.lists
                /\ mem' = r.mem
                /\ ptrBits' = r.ptr
                /\ markBits' = r.mark
                /\ bytesAllocated_' = r.bytes
                /\ allocationLimit_' = 2 * r.bytes
                /\ pc' = IF pending = 0 THEN "idle" ELSE "resume"
                /\ fresh' = 0
                /\ last' = [op |-> "collectGarbage", addr |-> 0, size |-> 0]
                /\ UNCHANGED <<gcPhase_, markStack_, slots_, free_, handles,
                               rootFields, pending>>

\* Heap::allocate continues after the collection it asked for.
ResumeAllocate ==
    /\ pc = "resume"
    /\ UNCHANGED notHeap
    /\ UNCHANGED ops
    /\ FinishAllocate(pending, TRUE)

\* Ptr<T>::set: store v into the word at a, then Heap::recordWrite sets the
\* word's pointer bit.
PtrStore(a, v) ==
    /\ pc = "idle"
    /\ UNCHANGED notHeap
    /\ StartOp
    /\ \E b \in Writable : a \in WordsOfBlock(b, blockSize(b))
    /\ v \in Storable
    /\ mem' = [mem EXCEPT ![a] = v]
    /\ ptrBits' = ptrBits \cup {a}
    /\ last' = Idle
    /\ UNCHANGED <<chunks, chunksBySize, markBits, bytesAllocated_,
                   allocationLimit_, gcPhase_, markStack_, slots_, free_, handles,
                   rootFields, fresh, pc, pending>>

\* HandleStorage::allocSlot that hands out the head of the free list and
\* leaves it the head.
allocSlotNoPop ==
    IF free_ # 0
    THEN [slot |-> free_, free |-> free_,
          slots |-> [slots_ EXCEPT ![SlotIndex(free_)] = 0]]
    ELSE [slot |-> SlotAddr(Len(slots_) + 1), free |-> free_,
          slots |-> Append(slots_, 0)]

\* HandleStorage::allocSlot: the slot's address, the new slots and free list.
allocSlot ==
    IF free_ # 0
    THEN LET v == slots_[SlotIndex(free_)]
         IN  [slot |-> free_, free |-> v - (v % 2),
              slots |-> [slots_ EXCEPT ![SlotIndex(free_)] = 0]]
    ELSE [slot |-> SlotAddr(Len(slots_) + 1), free |-> free_,
          slots |-> Append(slots_, 0)]

\* Handle<T>::Handle(T* block)
HandleCreate(h, block) ==
    /\ pc = "idle"
    /\ UNCHANGED notHeap
    /\ StartOp
    /\ handles[h] = 0
    /\ block \in ({0} \cup Writable
                    \cup (IF fresh = kZeroAllocAddress THEN {kZeroAllocAddress} ELSE {}))
    /\ LET r == allocSlot
       IN  /\ slots_' = [r.slots EXCEPT ![SlotIndex(r.slot)] = block]
           /\ free_' = r.free
           /\ handles' = [handles EXCEPT ![h] = r.slot]
    /\ last' = Idle
    /\ UNCHANGED <<chunks, chunksBySize, mem, ptrBits, markBits, bytesAllocated_,
                   allocationLimit_, gcPhase_, markStack_, rootFields, fresh, pc,
                   pending>>

\* Handle<T>::Handle(const Handle& handle)
HandleCopy(h, from) ==
    /\ pc = "idle"
    /\ UNCHANGED notHeap
    /\ StartOp
    /\ handles[h] = 0
    /\ handles[from] # 0
    /\ LET r == allocSlot
       IN  /\ slots_' = [r.slots EXCEPT ![SlotIndex(r.slot)] =
                                            slots_[SlotIndex(handles[from])]]
           /\ free_' = r.free
           /\ handles' = [handles EXCEPT ![h] = r.slot]
    /\ last' = Idle
    /\ UNCHANGED <<chunks, chunksBySize, mem, ptrBits, markBits, bytesAllocated_,
                   allocationLimit_, gcPhase_, markStack_, rootFields, fresh, pc,
                   pending>>

\* Handle<T>::~Handle, through HandleStorage::freeSlot
HandleDestroy(h) ==
    /\ pc = "idle"
    /\ UNCHANGED notHeap
    /\ StartOp
    /\ handles[h] # 0
    /\ slots_' = [slots_ EXCEPT ![SlotIndex(handles[h])] = free_ + 1]
    /\ free_' = handles[h]
    /\ handles' = [handles EXCEPT ![h] = 0]
    /\ last' = Idle
    /\ UNCHANGED <<chunks, chunksBySize, mem, ptrBits, markBits, bytesAllocated_,
                   allocationLimit_, gcPhase_, markStack_, rootFields, fresh, pc,
                   pending>>

\* Ptr<T>::set on a Ptr<T> that lies on the C++ stack at a: the store into p_
\* changes no heap word; Heap::recordWrite then calls setPointer on
\* Chunk::fromAddress(a), which is no chunk.  Locking the mutex and writing
\* the bitmap there is a wild access: it faults, or it sets the bit.
StackPtrStore(a) ==
    /\ pc = "idle"
    /\ UNCHANGED notHeap
    /\ StartOp
    /\ ~IsMapped(fromAddress(a))
    /\ \/ /\ ptrBits' = ptrBits \cup {a}
          /\ pc' = pc
       \/ /\ pc' = "crashed"
          /\ UNCHANGED ptrBits
    /\ last' = [op |-> "recordWrite", addr |-> a, size |-> 0]
    /\ UNCHANGED <<chunks, chunksBySize, mem, markBits, bytesAllocated_,
                   allocationLimit_, gcPhase_, markStack_, slots_, free_, handles,
                   rootFields, fresh, pending>>

NextHeap ==
    \/ \E size \in AllocSizes : Allocate(size)
    \/ CollectGarbage
    \/ MarkStep
    \/ SweepStep
    \/ ResumeAllocate
    \/ \E a \in AllDataAddrs : \E v \in Values : PtrStore(a, v)
    \/ StackPtrStore(kStackPtr)
    \/ \E h \in 1 .. MaxHandles : \E block \in Values : HandleCreate(h, block)
    \/ \E h \in 1 .. MaxHandles : \E from \in 1 .. MaxHandles : HandleCopy(h, from)
    \/ \E h \in 1 .. MaxHandles : HandleDestroy(h)

\* ---------------------------------------------------------------- bytecode
kSysExit == 60
kSysPrintln == 127
kUint16Mod == 65536

Arith == {"ADD", "ASR", "DIV", "MOD", "MUL", "SHL", "SHR", "SUB"}
Logic == {"AND", "OR", "XOR"}
Compare == {"GE", "GT", "LE", "LT"}

\* Type::size and Type::stackSlotSize
TypeSize(t) == CASE t = "unit" -> 0 [] t = "bool" -> 1 [] t = "int64" -> 8
stackSlotSize(t) == align(TypeSize(t), kWordSize) \div kWordSize

\* Inst::size
InstSize(op) ==
    CASE op = "SYS" -> 2
      [] op \in {"LOADARG", "LOADLOCAL", "STOREARG", "STORELOCAL"} -> 3
      [] op \in {"B", "BIF", "CALL"} -> 5
      [] op = "INT64" -> 9
      [] OTHER -> 1

\* The byte offset of the i-th instruction of p (inst - insts.begin()), the
\* length of p in bytes (insts.length()), and the instruction at an offset.
RECURSIVE OffsetOf(_, _)
OffsetOf(p, i) == IF i <= 1 THEN 0 ELSE OffsetOf(p, i - 1) + InstSize(p[i - 1].op)
CodeLength(p) == OffsetOf(p, Len(p) + 1)
InstAt(p, off) == p[CHOOSE i \in 1 .. Len(p) : OffsetOf(p, i) = off]

\* The functions of the package a CALL can name, by function index + 1: two
\* small ones, add of the call scenario, one each with a bool, a unit
\* parameter and a unit return value, one that calls itself, and two with
\* the parameters (bool, int64) that load and store argument 0.
package ==
    << [insts |-> <<[op |-> "RET", arg |-> 0]>>,
        paramTypes |-> <<>>, returnTypes |-> <<>>],
       [insts |-> <<[op |-> "LOADARG", arg |-> 0], [op |-> "RET", arg |-> 0]>>,
        paramTypes |-> <<"int64">>, returnTypes |-> <<"int64">>],
       [insts |-> <<[op |-> "LOADARG", arg |-> 0], [op |-> "LOADARG", arg |-> 1],
                    [op |-> "ADD", arg |-> 0], [op |-> "RET", arg |-> 0]>>,
        paramTypes |-> <<"int64", "int64">>, returnTypes |-> <<"int64">>],
       [insts |-> <<[op |-> "LOADARG", arg |-> 0], [op |-> "RET", arg |-> 0]>>,
        paramTypes |-> <<"bool">>, returnTypes |-> <<"bool">>],
       [insts |-> <<[op |-> "RET", arg |-> 0]>>,
        paramTypes |-> <<"unit">>, returnTypes |-> <<>>],
       [insts |-> <<[op |-> "INT64", arg |-> 1], [op |-> "UNIT", arg |-> 0],
                    [op |-> "RET", arg |-> 0]>>,
        paramTypes |-> <<>>, returnTypes |-> <<"int64", "unit">>],
       [insts |-> <<[op |-> "CALL", arg |-> 6], [op |-> "RET", arg |-> 0]>>,
        paramTypes |-> <<>>, returnTypes |-> <<>>],
       [insts |-> <<[op |-> "LOADARG", arg |-> 0], [op |-> "RET", arg |-> 0]>>,
        paramTypes |-> <<"bool", "int64">>, returnTypes |-> <<"bool">>],
       [insts |-> <<[op |-> "FALSE", arg |-> 0], [op |-> "STOREARG", arg |-> 0],
                    [op |-> "RET", arg |-> 0]>>,
        paramTypes |-> <<"bool", "int64">>, returnTypes |-> <<>>] >>

\* ----------------------------------------------------- Function::validate
NoError == [kind |-> "none", offset |-> 0]
Raise(st, kind, off) == [st EXCEPT !.err = [kind |-> kind, offset |-> off]]

Pop(types, n) == SubSeq(types, 1, Len(types) - n)

\* A checkType that looks at the operand without counting the operands first.
checkTypeNoCount(types, want, i, nops) ==
    IF Len(types) - i >= 1 /\ types[Len(types) - i] # want THEN "type" ELSE "ok"

\* The checkType lambda: "ok", or what the ValidateError it throws reports.
checkType(types, want, i, nops) ==
    IF Len(types) < nops THEN "operands"
    ELSE IF types[Len(types) - i] # want THEN "type"
    ELSE "ok"

\* for (i = 0; i < n; i++) checkType(inst, types, wants[i], n - i - 1, n)
RECURSIVE checkTypes(_, _, _)
checkTypes(types, wants, i) ==
    IF i >= Len(wants) THEN "ok"
    ELSE LET c == checkType(types, wants[i + 1], Len(wants) - i - 1, Len(wants))
         IN  IF c # "ok" THEN c ELSE checkTypes(types, wants, i + 1)

\* Two checks in a row, then the new types.
Checked(c1, c2, types) ==
    IF c1 # "ok" THEN [err |-> c1, types |-> <<>>]
    ELSE IF c2 # "ok" THEN [err |-> c2, types |-> <<>>]
    ELSE [err |-> "ok", types |-> types]

\* The switch of validate for the opcodes that do not end a block: what is
\* thrown ("ok" if nothing) and the abstract stack afterwards.
Rule(f, inst, types) ==
    LET op == inst.op
        n == Len(types)
    IN  CASE op \in Arith ->
               Checked(checkType(types, "int64", 0, 2), checkType(types, "int64", 1, 2),
                       Pop(types, 1))
          [] op \in Logic ->
               LET want == IF n > 0 /\ types[n] = "bool" THEN "bool" ELSE "int64"
               IN  Checked(checkType(types, want, 0, 2), checkType(types, want, 1, 2),
                           Pop(types, 1))
          [] op = "CALL" ->
               IF inst.arg >= Len(package) THEN Checked("function", "ok", <<>>)
               ELSE LET callee == package[inst.arg + 1]
                    IN  Checked(checkTypes(types, callee.paramTypes, 0), "ok",
                                Pop(types, Len(callee.paramTypes)) \o callee.returnTypes)
          [] op \in {"EQ", "NE"} ->
               IF n < 2 THEN Checked("operands", "ok", <<>>)
               ELSE IF types[n - 1] # types[n] THEN Checked("type", "ok", <<>>)
               ELSE Checked("ok", "ok", Append(Pop(types, 2), "bool"))
          [] op \in {"FALSE", "TRUE"} -> Checked("ok", "ok", Append(types, "bool"))
          [] op \in Compare ->
               Checked(checkType(types, "int64", 0, 2), checkType(types, "int64", 0, 2),
                       Append(Pop(types, 2), "bool"))
          [] op = "INT64" -> Checked("ok", "ok", Append(types, "int64"))
          [] op = "LOADARG" ->
               IF inst.arg >= Len(f.paramTypes) THEN Checked("index", "ok", <<>>)
               ELSE Checked("ok", "ok", Append(types, f.paramTypes[inst.arg + 1]))
          [] op = "LOADLOCAL" ->
               IF inst.arg >= n THEN Checked("index", "ok", <<>>)
               ELSE Checked("ok", "ok", Append(types, types[inst.arg + 1]))
          [] op = "NEG" -> Checked(checkType(types, "int64", 0, 1), "ok", types)
          [] op = "NOP" -> Checked("ok", "ok", types)
          [] op = "NOT" ->
               LET want == IF n > 0 /\ types[n] = "int64" THEN "int64" ELSE "bool"
               IN  Checked(checkType(types, want, 0, 1), "ok", types)
          [] op = "STOREARG" ->
               IF n = 0 THEN Checked("operands", "ok", <<>>)
               ELSE IF inst.arg >= Len(f.paramTypes) THEN Checked("index", "ok", <<>>)
               ELSE IF f.paramTypes[inst.arg + 1] # types[n] THEN Checked("type", "ok", <<>>)
               ELSE Checked("ok", "ok", Pop(types, 1))
          [] op = "STORELOCAL" ->
               IF n = 0 THEN Checked("operands", "ok", <<>>)
               ELSE IF inst.arg >= n - 1 THEN Checked("index", "ok", <<>>)
               ELSE Checked("ok", "ok", [Pop(types, 1) EXCEPT ![inst.arg + 1] = types[n]])
          [] op = "SYS" ->
               IF inst.arg = kSysExit
               THEN Checked(checkType(types, "int64", 0, 1), "ok", types)
               ELSE IF inst.arg = kSysPrintln
               THEN Checked(checkType(types, "int64", 0, 1), "ok", Pop(types, 1))
               ELSE Checked("sys", "ok", <<>>)
          [] op = "UNIT" -> Checked("ok", "ok", Append(types, "unit"))
          [] OTHER -> Checked("opcode", "ok", <<>>)

\* std::lower_bound(blocks.begin(), blocks.end(), b, ValidationBlock::less),
\* as a position from 1, and blocks.emplace(it, b).
lowerBound(bl, target) == 1 + Cardinality({k \in 1 .. Len(bl) : bl[k].begin < target})
emplace(bl, pos, b) == SubSeq(bl, 1, pos - 1) \o <<b>> \o SubSeq(bl, pos, Len(bl))

\* A comparison of a branch with a known block that looks at the depth only.
EdgeMismatchDepthOnly(b, types, frameSize) ==
    IF Len(b.types) # Len(types) THEN "depth" ELSE "ok"

\* checkBranch, "branch to known block": what is thrown, "ok" if nothing.
EdgeMismatch(b, types, frameSize) ==
    IF Len(b.types) # Len(types) THEN "depth"
    ELSE IF b.frameSize # frameSize THEN "framesize"
    ELSE IF \E i \in 1 .. Len(types) : b.types[i] # types[i] THEN "slot"
    ELSE "ok"

\* The checkBranch lambda.
checkBranch(f, st, instOffset, rel, types, frameSize) ==
    LET target == instOffset + rel
    IN  IF target < 0 \/ target >= CodeLength(f.insts) THEN Raise(st, "range", instOffset)
        ELSE LET pos == lowerBound(st.blocks, target)
                 known == pos <= Len(st.blocks) /\ st.blocks[pos].begin = target
                 m == IF known THEN EdgeMismatch(st.blocks[pos], types, frameSize) ELSE "ok"
                 bl == IF known THEN st.blocks
                       ELSE emplace(st.blocks, pos,
                                    [types |-> types, frameSize |-> frameSize,
                                     begin |-> target, end |-> 0, live |-> TRUE])
             IN  IF m # "ok" THEN Raise(st, m, instOffset)
                 ELSE [st EXCEPT !.blocks = bl,
                                 !.blockStack = IF bl[pos].end = 0 THEN Append(@, pos - 1)
                                                ELSE @,
                                 !.edges = @ \cup {[from |-> instOffset, target |-> target,
                                                    types |-> types,
                                                    frameSize |-> frameSize]}]

\* blocks[index].end = inst->next() - insts.begin()
SetEnd(st, index, end) == [st EXCEPT !.blocks[index + 1].end = end]

\* The for loop of validate over the instructions of one block, from the
\* instruction at off.
RECURSIVE walk(_, _, _, _, _, _)
walk(f, st, index, off, types, frameSize) ==
    IF off >= CodeLength(f.insts) THEN st
    ELSE LET inst == InstAt(f.insts, off)
             next == off + InstSize(inst.op)
             st1 == [st EXCEPT !.trace = Append(@, [off |-> off, types |-> types,
                                                   first |-> off = st.blocks[index + 1].begin])]
         IN  CASE inst.op = "B" ->
                    checkBranch(f, SetEnd(st1, index, next), off, inst.arg, types, frameSize)
               [] inst.op = "BIF" ->
                    LET c == checkType(types, "bool", 0, 1)
                        s2 == checkBranch(f, SetEnd(st1, index, next), off, inst.arg,
                                          Pop(types, 1), frameSize)
                    IN  IF c # "ok" THEN Raise(st1, c, off)
                        ELSE IF s2.err # NoError THEN s2
                        ELSE checkBranch(f, s2, off, InstSize(inst.op), Pop(types, 1),
                                         frameSize)
               [] inst.op = "RET" ->
                    LET c == checkTypes(types, f.returnTypes, 0)
                    IN  IF c # "ok" THEN Raise(st1, c, off) ELSE SetEnd(st1, index, next)
               [] OTHER ->
                    LET r == Rule(f, inst, types)
                    IN  IF r.err # "ok" THEN Raise(st1, r.err, off)
                        ELSE walk(f, st1, index, next, r.types, frameSize)

\* One iteration of the while loop of validate.
validateIteration(f, st) ==
    LET index == st.blockStack[Len(st.blockStack)]
        st1 == [st EXCEPT !.blockStack = SubSeq(@, 1, Len(@) - 1)]
        block == st.blocks[index + 1]
    IN  IF block.end > 0 THEN st1
        ELSE walk(f, st1, index, block.begin, block.types, block.frameSize)

\* "Make sure there's no dead space inside the function."
deadSpace(bl) == \E k \in 1 .. Len(bl) : bl[k].begin # (IF k = 1 THEN 0 ELSE bl[k - 1].end)

\* blocks.emplace_back(ValidationBlock{.live = true}); blockStack.push_back(0)
FirstBlock == [types |-> <<>>, frameSize |-> 0, begin |-> 0, end |-> 0, live |-> TRUE]

\* ----------------------------------------------- Function::buildSafepoints
\* The state of buildSafepoints: its blocks and worklist, the types and
\* frameSize of the block being walked, maxFrameSize, the SafepointBuilder's
\* entries, and status: "ok", "error" (a ValidateError was thrown) or "ub"
\* (a vector was read or popped outside its bounds).
ToInt16(x) == IF x >= kUint16Mod \div 2 THEN x - kUint16Mod ELSE x

\* The incrFrameSize lambda.
incrFrameSize(bs, delta) ==
    LET sum == ToInt16(bs.frameSize) + delta
        size == (bs.frameSize + delta + kUint16Mod) % kUint16Mod
    IN  IF bs.status # "ok" THEN bs
        ELSE IF sum >= kUint16Mod \div 2 \/ sum < -(kUint16Mod \div 2)
        THEN [bs EXCEPT !.status = "error"]
        ELSE [bs EXCEPT !.frameSize = size,
                        !.maxFrameSize = IF size > @ THEN size ELSE @]

\* types.pop_back() n times.
bsPop(bs, n) ==
    IF Len(bs.types) < n THEN [bs EXCEPT !.status = "ub"]
    ELSE [bs EXCEPT !.types = Pop(@, n)]

bsPush(bs, ty) == [bs EXCEPT !.types = Append(@, ty)]

RECURSIVE SlotSum(_)
SlotSum(types) ==
    IF types = <<>> THEN 0 ELSE stackSlotSize(types[1]) + SlotSum(SubSeq(types, 2, Len(types)))

\* spb.newEntry(instOffset)
recordSafepoint(bs, instOffset) == [bs EXCEPT !.entries = Append(@, instOffset)]

\* pop the top type and shrink the frame by its slot size
bsPopSlot(bs) ==
    IF bs.types = <<>> THEN [bs EXCEPT !.status = "ub"]
    ELSE incrFrameSize(bsPop(bs, 1), -stackSlotSize(bs.types[Len(bs.types)]))

\* The switch of buildSafepoints for the opcodes that do not end a block.
bsRule(f, inst, off, bs) ==
    LET op == inst.op
    IN  CASE op \in Arith \cup Logic -> incrFrameSize(bsPop(bs, 1), -1)
          [] op = "CALL" ->
               IF inst.arg >= Len(package)
               THEN [recordSafepoint(bs, off + InstSize(op)) EXCEPT !.status = "ub"]
               ELSE LET callee == package[inst.arg + 1]
                        n == Len(callee.paramTypes)
                        b1 == recordSafepoint(bs, off + InstSize(op))
                    IN  IF Len(bs.types) < n THEN [b1 EXCEPT !.status = "ub"]
                        ELSE incrFrameSize(
                                 [b1 EXCEPT !.types = Pop(@, n) \o callee.returnTypes],
                                 SlotSum(callee.returnTypes)
                                     - SlotSum(SubSeq(bs.types, Len(bs.types) - n + 1,
                                                      Len(bs.types))))
          [] op \in Compare \cup {"EQ", "NE"} ->
               incrFrameSize(bsPush(bsPop(bs, 2), "bool"), -1)
          [] op \in {"FALSE", "TRUE"} -> incrFrameSize(bsPush(bs, "bool"), 1)
          [] op = "INT64" -> incrFrameSize(bsPush(bs, "int64"), 1)
          [] op = "LOADARG" ->
               IF inst.arg >= Len(f.paramTypes) THEN [bs EXCEPT !.status = "ub"]
               ELSE incrFrameSize(bsPush(bs, f.paramTypes[inst.arg + 1]),
                                  stackSlotSize(f.paramTypes[inst.arg + 1]))
          [] op = "LOADLOCAL" ->
               IF inst.arg >= Len(bs.types) THEN [bs EXCEPT !.status = "ub"]
               ELSE incrFrameSize(bsPush(bs, bs.types[inst.arg + 1]),
                                  stackSlotSize(bs.types[inst.arg + 1]))
          [] op \in {"STOREARG", "STORELOCAL"} -> bsPopSlot(bs)
          [] op = "SYS" ->
               IF inst.arg = kSysPrintln
               THEN bsPopSlot(recordSafepoint(bs, off + InstSize(op)))
               ELSE bs
          [] op = "UNIT" -> incrFrameSize(bsPush(bs, "unit"), 1)
          [] OTHER -> bs

\* The branch lambda of buildSafepoints: no comparison with a known block,
\* and only a new block goes on the worklist.
branch(f, bs, instOffset, rel) ==
    LET target == instOffset + rel
        pos == lowerBound(bs.blocks, target)
    IN  IF target < 0 \/ target >= CodeLength(f.insts) THEN [bs EXCEPT !.status = "error"]
        ELSE IF pos <= Len(bs.blocks) /\ bs.blocks[pos].begin = target THEN bs
        ELSE [bs EXCEPT !.blocks = emplace(@, pos,
                                      [types |-> bs.types, frameSize |-> bs.frameSize,
                                       begin |-> target, end |-> 0, live |-> TRUE]),
                        !.blockStack = Append(@, pos - 1)]

\* The for loop of buildSafepoints over one block.
RECURSIVE bsWalk(_, _, _, _)
bsWalk(f, bs, index, off) ==
    IF bs.status # "ok" \/ off >= CodeLength(f.insts) THEN bs
    ELSE LET inst == InstAt(f.insts, off)
             next == off + InstSize(inst.op)
         IN  CASE inst.op = "B" -> branch(f, SetEnd(bs, index, next), off, inst.arg)
               [] inst.op = "BIF" ->
                    LET b1 == incrFrameSize(bsPop(SetEnd(bs, index, next), 1), -1)
                        b2 == branch(f, b1, off, inst.arg)
                    IN  IF b1.status # "ok" THEN b1
                        ELSE IF b2.status # "ok" THEN b2
                        ELSE branch(f, b2, off, InstSize(inst.op))
               [] inst.op = "RET" -> SetEnd(bs, index, next)
               [] inst.op = "SYS" /\ inst.arg = kSysExit -> SetEnd(bs, index, next)
               [] OTHER -> bsWalk(f, bsRule(f, inst, off, bs), index, next)

\* The while loop of buildSafepoints.
RECURSIVE bsLoop(_, _)
bsLoop(f, bs) ==
    IF bs.status # "ok" \/ bs.blockStack = <<>> THEN bs
    ELSE LET index == bs.blockStack[Len(bs.blockStack)]
             b1 == [bs EXCEPT !.blockStack = SubSeq(@, 1, Len(@) - 1)]
             block == bs.blocks[index + 1]
         IN  IF block.end > 0 THEN bsLoop(f, b1)
             ELSE bsLoop(f, bsWalk(f, [b1 EXCEPT !.types = block.types,
                                                 !.frameSize = block.frameSize],
                                   index, block.begin))

\* buildSafepoints: the status and the Safepoints that SafepointBuilder::build
\* makes: the frame size and the entries' instruction offsets in order.
buildSafepoints(f) ==
    LET bs == bsLoop(f, [blocks |-> <<FirstBlock>>, blockStack |-> <<0>>,
                         types |-> <<>>, frameSize |-> 0, maxFrameSize |-> 0,
                         entries |-> <<>>, status |-> "ok"])
    IN  [status |-> bs.status,
         safepoints |-> [frameSize |-> bs.maxFrameSize,
                         entries |-> SortSeq(bs.entries, LAMBDA a, b : a < b)]]

\* ------------------------------------------------------- validate, whole
ValidateStart ==
    [blocks |-> <<FirstBlock>>, blockStack |-> <<0>>, err |-> NoError,
     trace |-> <<>>, edges |-> {}]

RECURSIVE validateLoop(_, _)
validateLoop(f, st) ==
    IF st.err # NoError \/ st.blockStack = <<>> THEN st
    ELSE validateLoop(f, validateIteration(f, st))

\* "Ensure safepoints are correct.": "accepted", "rejected" or "ub".
safepointCheck(f) ==
    LET b == buildSafepoints(f)
    IN  IF b.status = "ub" THEN "ub"
        ELSE IF b.status = "error" \/ b.safepoints # f.safepoints THEN "rejected"
        ELSE "accepted"

\* Function::validate from start to end: TRUE when it returns without raising.
validate(f) ==
    LET st == validateLoop(f, ValidateStart)
    IN  st.err = NoError /\ ~deadSpace(st.blocks) /\ safepointCheck(f) = "accepted"

\* ------------------------------------------------------ verifier inputs
\* Programs are sequences of instructions [op, arg]; the arg of B and BIF is
\* the relative byte offset of the target.  Targets lie on instruction
\* boundaries or one past the last instruction.
CoreOps ==
    {[op |-> "TRUE", arg |-> 0], [op |-> "INT64", arg |-> 1], [op |-> "ADD", arg |-> 0],
     [op |-> "LT", arg |-> 0], [op |-> "NOP", arg |-> 0], [op |-> "RET", arg |-> 0],
     [op |-> "SYS", arg |-> kSysExit]}

AllOps ==
    {[op |-> o, arg |-> 0] :
        o \in Arith \cup Logic \cup Compare
              \cup {"EQ", "NE", "NEG", "NOT", "NOP", "RET", "UNIT", "TRUE", "FALSE",
                    "LOADARG", "LOADLOCAL", "STOREARG", "STORELOCAL"}}
        \cup {[op |-> "INT64", arg |-> 1], [op |-> "CALL", arg |-> 1],
              [op |-> "SYS", arg |-> kSysExit], [op |-> "SYS", arg |-> kSysPrintln]}

\* B and BIF naming the target by instruction number, 1 .. n + 1.
BranchOps(n) == {[op |-> o, arg |-> t] : o \in {"B", "BIF"}, t \in 1 .. (n + 1)}

Branches(p) == Cardinality({i \in 1 .. Len(p) : p[i].op \in {"B", "BIF"}})

\* Instruction numbers replaced by relative byte offsets.
Resolve(p) ==
    [i \in 1 .. Len(p) |->
        IF p[i].op \in {"B", "BIF"}
        THEN [op |-> p[i].op, arg |-> OffsetOf(p, p[i].arg) - OffsetOf(p, i)]
        ELSE p[i]]

\* Loops: one instruction, a branch into the loop body, two instructions of
\* body and the branch back to the start of the body.
LoopPrograms ==
    {<<a, [op |-> "B", arg |-> 3], b, c, [op |-> "B", arg |-> 3]>> : a, b, c \in CoreOps}

\* A conditional branch over one to three instructions, among them calls and
\* printlns: true; bif; then three instructions.
SafepointOps ==
    {[op |-> "RET", arg |-> 0], [op |-> "INT64", arg |-> 1], [op |-> "CALL", arg |-> 0],
     [op |-> "SYS", arg |-> kSysPrintln]}

BranchCallPrograms ==
    {<<[op |-> "TRUE", arg |-> 0], [op |-> "BIF", arg |-> t], b, c, d>> :
        t \in 3 .. 5, b \in SafepointOps, c \in SafepointOps, d \in SafepointOps}

\* The programs S1 to S4 of the specification; S3 with its branches resolved
\* (bif L1 at offset 19, L1 at 40; b L2 at offset 35, L2 at 51).
ScenarioS1 == <<[op |-> "INT64", arg |-> 0], [op |-> "SYS", arg |-> kSysExit]>>
ScenarioS2 ==
    <<[op |-> "INT64", arg |-> 2], [op |-> "INT64", arg |-> 3], [op |-> "ADD", arg |-> 0],
      [op |-> "SYS", arg |-> kSysPrintln], [op |-> "INT64", arg |-> 0],
      [op |-> "SYS", arg |-> kSysExit]>>
ScenarioS3 ==
    <<[op |-> "INT64", arg |-> 1], [op |-> "INT64", arg |-> 1], [op |-> "EQ", arg |-> 0],
      [op |-> "BIF", arg |-> 21], [op |-> "INT64", arg |-> 10],
      [op |-> "SYS", arg |-> kSysPrintln], [op |-> "B", arg |-> 16],
      [op |-> "INT64", arg |-> 20], [op |-> "SYS", arg |-> kSysPrintln],
      [op |-> "INT64", arg |-> 0], [op |-> "SYS", arg |-> kSysExit]>>
ScenarioS4 ==
    <<[op |-> "INT64", arg |-> 7], [op |-> "INT64", arg |-> 8], [op |-> "CALL", arg |-> 2],
      [op |-> "SYS", arg |-> kSysPrintln], [op |-> "INT64", arg |-> 0],
      [op |-> "SYS", arg |-> kSysExit]>>
ScenarioPrograms == {ScenarioS1, ScenarioS2, ScenarioS3, ScenarioS4}

Programs ==
    {Resolve(p) :
        p \in LoopPrograms \cup BranchCallPrograms
              \cup UNION {{q \in [1 .. n -> CoreOps \cup BranchOps(n)] :
                              Branches(q) <= MaxBranches} : n \in 1 .. MaxInsts}}
        \cup UNION {[1 .. n -> AllOps] : n \in 1 .. ShortInsts}
        \cup ScenarioPrograms

Signatures ==
    {[paramTypes |-> <<>>, returnTypes |-> <<>>],
     [paramTypes |-> <<"int64">>, returnTypes |-> <<"int64">>]}

NoSafepoints == [frameSize |-> 0, entries |-> <<>>]

MakeFunction(p, sig, sps) ==
    [insts |-> p, paramTypes |-> sig.paramTypes, returnTypes |-> sig.returnTypes,
     safepoints |-> sps]

\* The safepoints a package file gives for the function: the right ones, or none.
SafepointsOf(p, sig) ==
    {buildSafepoints(MakeFunction(p, sig, NoSafepoints)).safepoints, NoSafepoints}

\* -------------------------------------------------------- verifier actions
InitVerify ==
    /\ \E p \in Programs : \E sig \in Signatures : \E sps \in SafepointsOf(p, sig) :
           fn = MakeFunction(p, sig, sps)
    /\ blocks = ValidateStart.blocks
    /\ blockStack = ValidateStart.blockStack
    /\ verr = NoError
    /\ trace = <<>>
    /\ edges = {}
    /\ vpc = "loop"

\* One iteration of the while loop of validate: pop a block and walk it.
VisitBlock ==
    /\ vpc = "loop"
    /\ blockStack # <<>>
    /\ LET st == validateIteration(fn, [blocks |-> blocks, blockStack |-> blockStack,
                                        err |-> NoError, trace |-> trace, edges |-> edges])
       IN  /\ blocks' = st.blocks
           /\ blockStack' = st.blockStack
           /\ verr' = st.err
           /\ trace' = st.trace
           /\ edges' = st.edges
           /\ vpc' = IF st.err # NoError THEN "rejected" ELSE "loop"
    /\ UNCHANGED <<fn, notVerify>>

\* The worklist is empty: the dead-space check.
CheckDeadSpace ==
    /\ vpc = "loop"
    /\ blockStack = <<>>
    /\ IF deadSpace(blocks)
       THEN vpc' = "rejected" /\ verr' = [kind |-> "deadspace", offset |-> 0]
       ELSE vpc' = "safepoints" /\ UNCHANGED verr
    /\ UNCHANGED <<fn, blocks, blockStack, trace, edges, notVerify>>

\* buildSafepoints and the comparison with the function's safepoints; then
\* validate returns.
CheckSafepoints ==
    /\ vpc = "safepoints"
    /\ LET r == safepointCheck(fn)
       IN  /\ vpc' \in (IF r = "ub" THEN {"accepted", "rejected", "crashed"} ELSE {r})
           /\ verr' = IF vpc' = "rejected" THEN [kind |-> "safepoints", offset |-> 0]
                      ELSE verr
    /\ UNCHANGED <<fn, blocks, blockStack, trace, edges, notVerify>>

NextVerify ==
    \/ VisitBlock
    \/ CheckDeadSpace
    \/ CheckSafepoints

\* ---------------------------------------------------------------- interpret
\* The values of enum class Op, by position.
OpNames ==
    <<"NOP", "SYS", "RET", "CALL", "B", "BIF", "LOADARG", "LOADLOCAL", "STOREARG",
      "STORELOCAL", "UNIT", "TRUE", "FALSE", "INT64", "NEG", "NOT", "ADD", "SUB", "MUL",
      "DIV", "MOD", "SHL", "SHR", "ASR", "AND", "OR", "XOR", "LT", "LE", "GT", "GE", "EQ",
      "NE">>
OpCode(op) == (CHOOSE i \in 1 .. Len(OpNames) : OpNames[i] = op) - 1

\* The byte of the instruction stream p at offset off: an opcode, or a byte
\* of a little-endian immediate.  A byte past the end of p is junk.
ByteAt(p, off, junk) ==
    IF off >= CodeLength(p) THEN junk % 256
    ELSE LET i == CHOOSE k \in 1 .. Len(p) : OffsetOf(p, k) <= off /\ off < OffsetOf(p, k + 1)
             n == off - OffsetOf(p, i)
         IN  IF n = 0 THEN OpCode(p[i].op)
             ELSE IF n > 3 THEN (IF p[i].arg < 0 THEN 255 ELSE 0)
             ELSE (p[i].arg \div (256 ^ (n - 1))) % 256

\* *reinterpret_cast<const uint16_t*>(ip + 1)
U16At(p, off, junk) == ByteAt(p, off + 1, junk) + 256 * ByteAt(p, off + 2, junk)

\* The functions of the package by id: the callable ones, then the entry.
EntryId == Len(package) + 1
FunctionOf(id) == IF id = EntryId THEN entry ELSE package[id]

\* fn->frameSize()
frameSizeOf(id) ==
    IF id = EntryId THEN entry.safepoints.frameSize
    ELSE buildSafepoints(package[id]).safepoints.frameSize

\* typesSize(types) / kWordSize
RECURSIVE typesSize(_)
typesSize(types) ==
    IF types = <<>> THEN 0
    ELSE align(TypeSize(types[1]), kWordSize) + typesSize(SubSeq(types, 2, Len(types)))

\* Stack: the words limit_ .. start_ - 1 are the indices 1 .. StackWords;
\* 0 is the null pointer.  What the program does outside them is junk read
\* or a write that lands elsewhere; oob records that it happened.
InStack(w) == w \in 1 .. StackWords
Junk == {0, WordMod - 1}
Read(m, w, junk) == IF InStack(w) THEN m.stack[w] ELSE junk
Write(m, w, x) ==
    IF InStack(w) THEN [m EXCEPT !.stack[w] = x] ELSE [m EXCEPT !.oob = TRUE]

\* #define PUSH(x) *--sp = x, #define POP() *sp++ (its value is Top)
PUSH(m, x) == [Write(m, m.sp - 1, x) EXCEPT !.sp = m.sp - 1]
Top(m, junk) == Read(m, m.sp, junk)
POP(m) == [m EXCEPT !.sp = @ + 1, !.oob = @ \/ ~InStack(m.sp)]

\* static_cast<int64_t>(word) and back, at the width of the model's words.
ToSigned(x) == IF x >= WordMod \div 2 THEN x - WordMod ELSE x
Wrap(v) == v % WordMod

\* operator<< of std::ostream on an unsigned integer: its decimal digits.
Digits == <<"0", "1", "2", "3", "4", "5", "6", "7", "8", "9">>
RECURSIVE Decimal(_)
Decimal(n) ==
    IF n < 10 THEN <<Digits[n + 1]>> ELSE Decimal(n \div 10) \o <<Digits[(n % 10) + 1]>>

\* out << value << std::endl, value being the word_t that POP gives.
PrintWord(value) == Decimal(value) \o <<"\n">>

\* x / y of C++, which truncates towards zero.
TruncDiv(x, y) ==
    LET q == (IF x < 0 THEN -x ELSE x) \div (IF y < 0 THEN -y ELSE y)
    IN  IF (x < 0) = (y < 0) THEN q ELSE -q

\* &, | and ^ on words, bit by bit.
RECURSIVE Bitwise(_, _, _, _)
Bitwise(op, a, b, n) ==
    IF n = 0 THEN 0
    ELSE LET x == a % 2
             y == b % 2
             bit == CASE op = "AND" -> x * y
                      [] op = "OR" -> IF x + y > 0 THEN 1 ELSE 0
                      [] OTHER -> (x + y) % 2
         IN  bit + 2 * Bitwise(op, a \div 2, b \div 2, n - 1)

\* x op y on int64_t: the set of results a build can produce, empty when
\* the operation traps.  A shift by a count outside 0 .. width - 1 is
\* undefined: the count is masked, or the result is 0.
BinaryResults(op, x, y) ==
    LET masked == y % WordBits
        shl(c) == Wrap(x * (2 ^ c))
        shr(c) == Wrap(x \div (2 ^ c))
        okCount == y >= 0 /\ y < WordBits
    IN  CASE op = "ADD" -> {Wrap(x + y)}
          [] op = "SUB" -> {Wrap(x - y)}
          [] op = "MUL" -> {Wrap(x * y)}
          [] op = "DIV" -> IF y = 0 THEN {} ELSE {Wrap(TruncDiv(x, y))}
          [] op = "MOD" -> IF y = 0 THEN {} ELSE {Wrap(x - y * TruncDiv(x, y))}
          [] op = "SHL" -> IF okCount THEN {shl(y)} ELSE {shl(masked), 0}
          [] op \in {"SHR", "ASR"} -> IF okCount THEN {shr(y)} ELSE {shr(masked), 0}
          [] op \in Logic -> {Bitwise(op, Wrap(x), Wrap(y), WordBits)}
          [] op = "LT" -> {IF x < y THEN 1 ELSE 0}
          [] op = "LE" -> {IF x <= y THEN 1 ELSE 0}
          [] op = "GT" -> {IF x > y THEN 1 ELSE 0}
          [] op = "GE" -> {IF x >= y THEN 1 ELSE 0}
          [] op = "EQ" -> {IF x = y THEN 1 ELSE 0}
          [] op = "NE" -> {IF x # y THEN 1 ELSE 0}

\* #define BINARY_OP(op): the machines after it, one per result.
BINARY_OP(m, op, junk) ==
    LET y == ToSigned(Top(m, junk))
        m1 == POP(m)
        x == ToSigned(Top(m1, junk))
        m2 == POP(m1)
        rs == BinaryResults(op, x, y)
    IN  IF rs = {} THEN {[m2 EXCEPT !.status = "crashed"]}
        ELSE {PUSH(m2, r) : r \in rs}

\* #define UNARY_OP(op), for - and ~
UNARY_OP(m, op, junk) ==
    LET x == ToSigned(Top(m, junk))
    IN  PUSH(POP(m), IF op = "NEG" THEN Wrap(-x) ELSE Wrap(-x - 1))

\* ip = ip->next()
Advance(m, inst) == [m EXCEPT !.ip = @ + InstSize(inst.op)]

\* case Op::STOREARG and case Op::STORELOCAL, with the index i read at ip + 1
StoreArg(m, i, junk) == Write(POP(m), m.fp + 4 + i, Top(m, junk))
StoreLocal(m, i, junk) == Write(POP(m), m.fp - 1 - i, Top(m, junk))

\* case Op::CALL
Call(m, inst) ==
    LET frame == m.sp - 4
        w1 == Write(m, frame, m.fp)
        w2 == Write(w1, frame + 1, m.ip + InstSize("CALL") + 1)
        w3 == Write(w2, frame + 2, m.cur)
        w4 == Write(w3, frame + 3, 1)
        callee == inst.arg + 1
        m5 == [w4 EXCEPT !.cur = callee, !.fp = frame, !.sp = frame, !.ip = 0]
    IN  IF inst.arg >= Len(package) THEN [m EXCEPT !.status = "crashed"]
        ELSE IF (frame - 1) * kWordSize - frameSizeOf(callee) < 0
        THEN [m5 EXCEPT !.status = "overflow"]
        ELSE m5

\* while (dst != sp) *--dst = *--src;
RECURSIVE CopyDown(_, _, _, _, _)
CopyDown(m, dst, src, n, junk) ==
    IF n = 0 THEN m
    ELSE LET m1 == IF InStack(src - 1) THEN m ELSE [m EXCEPT !.oob = TRUE]
         IN  CopyDown(Write(m1, dst - 1, Read(m, src - 1, junk)), dst - 1, src - 1, n - 1, junk)

\* case Op::RET
Ret(m, junk) ==
    LET f == FunctionOf(m.cur)
        retip == Read(m, m.fp + 1, junk)
        argWords == typesSize(f.paramTypes) \div kWordSize
        returnWords == typesSize(f.returnTypes) \div kWordSize
        dst == m.fp + 4 + argWords
        m1 == CopyDown(m, dst, m.sp + returnWords, returnWords, junk)
    IN  IF retip = 0 THEN [m EXCEPT !.status = "returned"]
        ELSE [m1 EXCEPT !.ip = retip - 1,
                        !.cur = Read(m, m.fp + 2, junk),
                        !.fp = Read(m, m.fp, junk),
                        !.sp = dst - returnWords,
                        !.oob = @ \/ ~InStack(m.fp)]

\* The registers of the dispatch loop and the Stack as one record; status is
\* how the loop goes on after the step.
Machine ==
    [cur |-> cur, ip |-> ip, sp |-> sp, fp |-> fp, stack |-> stack, out |-> out,
     status |-> "run", oob |-> FALSE]

\* The instruction at ip, when ip is inside the function.
InCode == ipc = "run" /\ ip < CodeLength(FunctionOf(cur).insts)
CurInst == InstAt(FunctionOf(cur).insts, ip)

\* The state after a step that leaves the machine m.  A step that read or
\* wrote outside the Stack or the instructions either goes on or crashes.
Becomes(m) ==
    /\ cur' = m.cur
    /\ ip' = m.ip
    /\ sp' = m.sp
    /\ fp' = m.fp
    /\ stack' = m.stack
    /\ out' = m.out
    /\ ipc' \in (IF m.oob THEN {m.status, "crashed"} ELSE {m.status})
    /\ UNCHANGED <<entry, notInterp>>

\* Entry functions: no parameters, no return values, accepted by validate.
\* Straight-line programs are up to InterpInsts instructions and a ret.
StraightPrograms ==
    UNION {{Append(p, [op |-> "RET", arg |-> 0]) : p \in [1 .. n -> AllOps]}
              : n \in 0 .. InterpInsts}

EntrySignature == [paramTypes |-> <<>>, returnTypes |-> <<>>]

\* Callers: an optional local, one push per parameter of the callee, the
\* call, an optional println, and a ret; and main of the call scenario.
PushOf(t) ==
    CASE t = "unit" -> [op |-> "UNIT", arg |-> 0]
      [] t = "bool" -> [op |-> "TRUE", arg |-> 0]
      [] OTHER -> [op |-> "INT64", arg |-> 1]

ScenarioCall == ScenarioS4

CallPrograms ==
    {pre \o [i \in 1 .. Len(package[k].paramTypes) |-> PushOf(package[k].paramTypes[i])]
         \o <<[op |-> "CALL", arg |-> k - 1]>> \o post \o <<[op |-> "RET", arg |-> 0]>> :
        pre \in {<<>>, <<[op |-> "INT64", arg |-> 7]>>},
        post \in {<<>>, <<[op |-> "SYS", arg |-> kSysPrintln]>>},
        k \in 1 .. Len(package)}
        \cup {ScenarioCall}

\* Callers of the two functions with the parameters (bool, int64), with
\* arguments that differ as words.
ArgPrograms ==
    {<<[op |-> "FALSE", arg |-> 0], [op |-> "INT64", arg |-> 7], [op |-> "CALL", arg |-> k],
       [op |-> "RET", arg |-> 0]>> : k \in {7, 8}}

\* int64 -1; sys println
PrintPrograms ==
    {<<[op |-> "INT64", arg |-> v], [op |-> "SYS", arg |-> kSysPrintln],
       [op |-> "RET", arg |-> 0]>> : v \in {-1, 10, 205}}

\* Stack::Stack and the start of interpret: the initial frame, fp, sp, ip.
\* The bytes of the new Stack are whatever new uint8_t[] returns.
InitInterp ==
    /\ \E p \in Programs \cup StraightPrograms \cup CallPrograms \cup PrintPrograms
                   \cup ArgPrograms :
          LET f == MakeFunction(p, EntrySignature,
                       buildSafepoints(MakeFunction(p, EntrySignature, NoSafepoints)).safepoints)
          IN  validate(f) /\ entry = f
    /\ cur = EntryId
    /\ ip = 0
    /\ fp = StackWords - 3
    /\ sp = StackWords - 3
    /\ \E j \in Junk :
          stack = [w \in 1 .. StackWords |->
                      CASE w = StackWords - 1 -> EntryId
                        [] w = StackWords -> 1
                        [] w \in {StackWords - 3, StackWords - 2} -> 0
                        [] OTHER -> j]
    /\ out = <<>>
    /\ ipc = "run"

\* ADD ... XOR, the comparisons, NEG, NOT, NOP and the constants; not SHR.
ExecOperate ==
    /\ InCode
    /\ LET op == CurInst.op
       IN  /\ op \in (((Arith \cup Logic \cup Compare) \ {"SHR"})
                        \cup {"EQ", "NE", "NEG", "NOT", "NOP", "UNIT", "TRUE", "FALSE", "INT64"})
           /\ \E junk \in Junk :
                 \E m \in (CASE op \in {"NEG", "NOT"} -> {UNARY_OP(Machine, op, junk)}
                             [] op = "NOP" -> {Machine}
                             [] op \in {"UNIT", "FALSE"} -> {PUSH(Machine, 0)}
                             [] op = "TRUE" -> {PUSH(Machine, 1)}
                             [] op = "INT64" -> {PUSH(Machine, Wrap(CurInst.arg))}
                             [] OTHER -> BINARY_OP(Machine, op, junk)) :
                     Becomes(IF m.status = "run" THEN Advance(m, CurInst) ELSE m)

\* case Op::SHR: BINARY_OP(>>) with no break after it, then the code of
\* case Op::STOREARG, whose index is the two bytes after the SHR opcode.
ExecShr ==
    /\ InCode
    /\ CurInst.op = "SHR"
    /\ \E junk \in Junk :
          \E m \in BINARY_OP(Machine, "SHR", junk) :
              LET code == FunctionOf(cur).insts
                  i == U16At(code, ip, junk)
                  m1 == IF ip + 2 >= CodeLength(code) THEN [m EXCEPT !.oob = TRUE] ELSE m
              IN  Becomes(IF m.status = "run"
                          THEN Advance(StoreArg(m1, i, junk), CurInst)
                          ELSE m)

\* case Op::B and case Op::BIF
ExecBranch ==
    /\ InCode
    /\ CurInst.op \in {"B", "BIF"}
    /\ \E junk \in Junk :
          IF CurInst.op = "B" THEN Becomes([Machine EXCEPT !.ip = @ + CurInst.arg])
          ELSE LET cond == Top(Machine, junk) # 0
                   m == POP(Machine)
               IN  Becomes(IF cond THEN [m EXCEPT !.ip = @ + CurInst.arg]
                           ELSE Advance(m, CurInst))

\* case Op::CALL
ExecCall ==
    /\ InCode
    /\ CurInst.op = "CALL"
    /\ Becomes(Call(Machine, CurInst))

\* case Op::RET
ExecRet ==
    /\ InCode
    /\ CurInst.op = "RET"
    /\ \E junk \in Junk : Becomes(Ret(Machine, junk))

\* case Op::LOADARG, LOADLOCAL, STOREARG and STORELOCAL
ExecLoadStore ==
    /\ InCode
    /\ CurInst.op \in {"LOADARG", "LOADLOCAL", "STOREARG", "STORELOCAL"}
    /\ \E junk \in Junk :
          LET i == CurInst.arg
              at == IF CurInst.op = "LOADARG" THEN fp + 4 + i ELSE fp - 1 - i
              ld == PUSH([Machine EXCEPT !.oob = ~InStack(at)], Read(Machine, at, junk))
              m == CASE CurInst.op \in {"LOADARG", "LOADLOCAL"} -> ld
                     [] CurInst.op = "STOREARG" -> StoreArg(Machine, i, junk)
                     [] OTHER -> StoreLocal(Machine, i, junk)
          IN  Becomes(Advance(m, CurInst))

\* case Op::SYS
ExecSys ==
    /\ InCode
    /\ CurInst.op = "SYS"
    /\ \E junk \in Junk :
          LET value == Top(Machine, junk)
              m == POP(Machine)
          IN  CASE CurInst.arg = kSysExit -> Becomes([m EXCEPT !.status = "exited"])
                [] CurInst.arg = kSysPrintln ->
                     Becomes(Advance([m EXCEPT !.out = @ \o PrintWord(value)], CurInst))
                [] OTHER -> Becomes(Advance(Machine, CurInst))

\* ip has left the instructions of the function: the loop reads its next
\* opcode from whatever follows them.
RunOffEnd ==
    /\ ipc = "run"
    /\ ip >= CodeLength(FunctionOf(cur).insts)
    /\ ipc' \in {"crashed", "wild"}
    /\ UNCHANGED <<entry, cur, ip, sp, fp, stack, out, notInterp>>

NextInterp ==
    \/ ExecOperate
    \/ ExecShr
    \/ ExecBranch
    \/ ExecCall
    \/ ExecRet
    \/ ExecLoadStore
    \/ ExecSys
    \/ RunOffEnd

\* ------------------------------------------------------------ package files
\* The binary format: sizes of the headers and of the entries, in bytes.
kMagic == 1347899203
kFileHeaderSize == 8
kSectionHeaderSize == 28
kStringEntrySize == 16
\* The fields of a FunctionEntry as writeFunctionEntry writes them: nameIndex,
\* paramTypeOffset, paramTypeCount, returnTypeOffset, returnTypeCount,
\* instOffset, instSize, safepointOffset, safepointCount, frameSize.
FunctionEntryWidths == <<4, 8, 4, 8, 4, 8, 4, 8, 4, 2>>
kFunctionEntrySize == 54

SectionFUNCTION == 1
SectionTYPE == 2
SectionSTRING == 3

\* Type::Kind as a byte, and back (readType); 255 stands for no kind.
KindOf(t) == CASE t = "unit" -> 0 [] t = "bool" -> 1 [] OTHER -> 2
TypeOfKind(k) == CASE k = 0 -> "unit" [] k = 1 -> "bool" [] k = 2 -> "int64" [] OTHER -> "none"

\* writeBin<T>: the sizeof(T) bytes of v, little-endian.
RECURSIVE writeBin(_, _)
writeBin(width, v) == IF width = 0 THEN <<>> ELSE <<v % 256>> \o writeBin(width - 1, v \div 256)

\* readBin<T> at offset p of data.
RECURSIVE readBin(_, _, _)
readBin(data, p, width) ==
    IF width = 0 THEN 0 ELSE data[p + 1] + 256 * readBin(data, p + 1, width - 1)

RECURSIVE Concat(_)
Concat(ss) == IF ss = <<>> THEN <<>> ELSE ss[1] \o Concat(Tail(ss))

\* The bytes before the i-th of the pieces ss, counted.
OffsetIn(ss, i) == Len(Concat(SubSeq(ss, 1, i - 1)))

\* Safepoints::bytesPerEntry and Safepoints::length
bytesPerEntry(frameSize) == 4 + align(align(frameSize, 8) \div 8, 4)
SafepointsLength(sps) == Len(sps.data) \div bytesPerEntry(sps.frameSize)

\* SafepointBuilder::build: the bytes of the entries, none with a pointer.
SafepointData(frameSize, entries) ==
    Concat([k \in 1 .. Len(entries) |->
               writeBin(4, entries[k]) \o [j \in 1 .. (bytesPerEntry(frameSize) - 4) |-> 0]])

\* The bytes of a function's instructions.
InstBytes(p) == [k \in 1 .. CodeLength(p) |-> ByteAt(p, k - 1, 0)]

\* A Function as the package holds it in memory.
PackFunction(name, f) ==
    [name |-> name, paramTypes |-> f.paramTypes, returnTypes |-> f.returnTypes,
     insts |-> InstBytes(f.insts),
     safepoints |-> [frameSize |-> f.safepoints.frameSize,
                     data |-> SafepointData(f.safepoints.frameSize, f.safepoints.entries)]]

\* visitString over the functions in order: the distinct names, first
\* occurrence first; and the index stringIndex gives a name.
RECURSIVE visitStrings(_, _)
visitStrings(fs, seen) ==
    IF fs = <<>> THEN seen
    ELSE visitStrings(Tail(fs),
                      IF \E k \in 1 .. Len(seen) : seen[k] = fs[1].name THEN seen
                      ELSE Append(seen, fs[1].name))
stringIndexOf(strings, s) == (CHOOSE k \in 1 .. Len(strings) : strings[k] = s) - 1

\* writeType for the parameter types, then the return types of a function.
TypeBytes(f) ==
    [k \in 1 .. Len(f.paramTypes) |-> KindOf(f.paramTypes[k])]
        \o [k \in 1 .. Len(f.returnTypes) |-> KindOf(f.returnTypes[k])]

\* The instructions of a function, then its safepoint data.
FunctionData(f) == f.insts \o f.safepoints.data

\* writeSectionHeader
writeSectionHeader(sh) ==
    writeBin(4, sh.kind) \o writeBin(8, sh.offset) \o writeBin(8, sh.size)
        \o writeBin(4, sh.entryCount) \o writeBin(4, sh.entrySize)

\* writeFunctionEntry
writeFunctionEntry(e) == Concat([k \in 1 .. Len(e) |-> writeBin(FunctionEntryWidths[k], e[k])])

\* instOffsets[i]: where the data of function i starts in the data blob.
instOffset(fs, i) == OffsetIn([k \in 1 .. Len(fs) |-> FunctionData(fs[k])], i)

\* Package::writeToFile: the bytes written, and whether its ASSERTs held.
writeToFile(fs) ==
    LET n == Len(fs)
        strings == visitStrings(fs, <<>>)
        stringData == Concat(strings)
        types == [i \in 1 .. n |-> TypeBytes(fs[i])]
        typeData == Concat(types)
        datas == [i \in 1 .. n |-> FunctionData(fs[i])]
        lastFunctionDataOffset == Len(Concat(datas))
        functionSection ==
            [kind |-> SectionFUNCTION,
             offset |-> kFileHeaderSize + 3 * kSectionHeaderSize,
             size |-> n * kFunctionEntrySize + lastFunctionDataOffset,
             entryCount |-> n, entrySize |-> kFunctionEntrySize]
        typeSection ==
            [kind |-> SectionTYPE,
             offset |-> functionSection.offset + functionSection.size,
             size |-> Len(typeData), entryCount |-> 0, entrySize |-> 0]
        stringSection ==
            [kind |-> SectionSTRING,
             offset |-> typeSection.offset + typeSection.size,
             size |-> Len(strings) * kStringEntrySize + Len(stringData),
             entryCount |-> Len(strings), entrySize |-> kStringEntrySize]
        fileSize == stringSection.offset + stringSection.size
        headers ==
            writeBin(4, kMagic) \o writeBin(1, 0) \o writeBin(1, kWordSize) \o writeBin(2, 3)
                \o writeSectionHeader(functionSection) \o writeSectionHeader(typeSection)
                \o writeSectionHeader(stringSection)
        entries ==
            Concat([i \in 1 .. n |->
                       writeFunctionEntry(
                           <<stringIndexOf(strings, fs[i].name),
                             OffsetIn(types, i), Len(fs[i].paramTypes),
                             OffsetIn(types, i) + Len(fs[i].paramTypes), Len(fs[i].returnTypes),
                             instOffset(fs, i), Len(fs[i].insts),
                             instOffset(fs, i) + Len(fs[i].insts),
                             SafepointsLength(fs[i].safepoints),
                             fs[i].safepoints.frameSize>>)])
        functions == entries \o Concat(datas)
        stringEntries ==
            Concat([k \in 1 .. Len(strings) |->
                       writeBin(8, OffsetIn(strings, k)) \o writeBin(8, Len(strings[k]))])
    IN  [bytes |-> headers \o functions \o typeData \o stringEntries \o stringData,
         asserts |-> /\ Len(headers) = functionSection.offset
                     /\ Len(headers \o functions) = typeSection.offset
                     /\ Len(headers \o functions \o typeData) = stringSection.offset,
         fileSize |-> fileSize]

\* readSectionHeader at offset p.
readSectionHeader(data, p) ==
    [kind |-> readBin(data, p, 4), offset |-> readBin(data, p + 4, 8),
     size |-> readBin(data, p + 12, 8), entryCount |-> readBin(data, p + 20, 4),
     entrySize |-> readBin(data, p + 24, 4)]

NoSection == [kind |-> 0, offset |-> 0, size |-> 0, entryCount |-> 0, entrySize |-> 0]

\* A loop over the section headers that does not compare a header's offset
\* with the end of the previous section.
RECURSIVE readSectionsAnywhere(_, _, _, _)
readSectionsAnywhere(data, i, count, rd) ==
    IF rd.err # "none" \/ i >= count THEN rd
    ELSE LET sh == readSectionHeader(data, kFileHeaderSize + i * kSectionHeaderSize)
             r1 == [rd EXCEPT !.prevEnd = @ + sh.size]
             r2 == CASE sh.entryCount * sh.entrySize > sh.size -> [rd EXCEPT !.err = "data offset"]
                     [] sh.kind = SectionFUNCTION ->
                          IF rd.functionSection.offset > 0 THEN [rd EXCEPT !.err = "duplicate"]
                          ELSE IF sh.entrySize < kFunctionEntrySize
                          THEN [rd EXCEPT !.err = "entries too small"]
                          ELSE [r1 EXCEPT !.functionSection = sh]
                     [] sh.kind = SectionTYPE ->
                          IF rd.typeSection.offset > 0 THEN [rd EXCEPT !.err = "duplicate"]
                          ELSE [r1 EXCEPT !.typeSection = sh]
                     [] sh.kind = SectionSTRING ->
                          IF rd.stringSection.offset > 0 THEN [rd EXCEPT !.err = "duplicate"]
                          ELSE IF sh.entrySize < kStringEntrySize
                          THEN [rd EXCEPT !.err = "entries too small"]
                          ELSE [r1 EXCEPT !.stringSection = sh]
                     [] OTHER -> r1
         IN  readSectionsAnywhere(data, i + 1, count, r2)

\* The loop of readFromFile over the section headers, from header i.
RECURSIVE readSections(_, _, _, _)
readSections(data, i, count, rd) ==
    IF rd.err # "none" \/ i >= count THEN rd
    ELSE LET sh == readSectionHeader(data, kFileHeaderSize + i * kSectionHeaderSize)
             r1 == [rd EXCEPT !.prevEnd = @ + sh.size]
             r2 == CASE sh.entryCount * sh.entrySize > sh.size -> [rd EXCEPT !.err = "data offset"]
                     [] sh.offset # rd.prevEnd -> [rd EXCEPT !.err = "not after previous"]
                     [] sh.kind = SectionFUNCTION ->
                          IF rd.functionSection.offset > 0 THEN [rd EXCEPT !.err = "duplicate"]
                          ELSE IF sh.entrySize < kFunctionEntrySize
                          THEN [rd EXCEPT !.err = "entries too small"]
                          ELSE [r1 EXCEPT !.functionSection = sh]
                     [] sh.kind = SectionTYPE ->
                          IF rd.typeSection.offset > 0 THEN [rd EXCEPT !.err = "duplicate"]
                          ELSE [r1 EXCEPT !.typeSection = sh]
                     [] sh.kind = SectionSTRING ->
                          IF rd.stringSection.offset > 0 THEN [rd EXCEPT !.err = "duplicate"]
                          ELSE IF sh.entrySize < kStringEntrySize
                          THEN [rd EXCEPT !.err = "entries too small"]
                          ELSE [r1 EXCEPT !.stringSection = sh]
                     [] OTHER -> r1
         IN  readSections(data, i + 1, count, r2)

\* A functions_ entry that has not been read yet.
NullFunction == [null |-> TRUE]

\* Package::readFromFile: the error thrown ("none" if none) and the Package.
readFromFile(data) ==
    LET sectionCount == readBin(data, 6, 2)
        endOfHeaders == kFileHeaderSize + sectionCount * kSectionHeaderSize
        start == [err |-> "none", prevEnd |-> endOfHeaders, functionSection |-> NoSection,
                  typeSection |-> NoSection, stringSection |-> NoSection]
        rd == readSections(data, 0, sectionCount, start)
        err == CASE Len(data) < kFileHeaderSize -> "too small"
                 [] readBin(data, 0, 4) # kMagic -> "format"
                 [] readBin(data, 4, 1) # 0 -> "version"
                 [] readBin(data, 5, 1) # 8 -> "word size"
                 [] endOfHeaders > Len(data) -> "too small"
                 [] rd.err # "none" -> rd.err
                 [] rd.prevEnd # Len(data) -> "space at end"
                 [] OTHER -> "none"
    IN  [err |-> err,
         package |-> IF err # "none" THEN NoSection
                     ELSE [functionSection |-> rd.functionSection,
                           typeSection |-> rd.typeSection,
                           stringSection |-> rd.stringSection,
                           functions_ |-> [i \in 1 .. rd.functionSection.entryCount |->
                                              NullFunction],
                           functionsByName_ |-> <<>>,
                           filename_ |-> ""]]

\* readFunctionEntry at offset p
readFunctionEntry(data, p) ==
    [k \in 1 .. Len(FunctionEntryWidths) |->
        readBin(data, p + OffsetIn([j \in 1 .. Len(FunctionEntryWidths) |->
                                       [x \in 1 .. FunctionEntryWidths[j] |-> 0]], k),
                FunctionEntryWidths[k])]

\* The bytes of data from offset begin to offset end.
Bytes(data, begin, end) == SubSeq(data, begin + 1, end)

\* Package::stringByIndexLocked: the error ("none" if none) and the String.
stringByIndexLocked(data, pkg, index) ==
    LET sec == pkg.stringSection
        p == sec.offset + index * sec.entrySize
        offset == readBin(data, p, 8)
        size == readBin(data, p + 8, 8)
        dataBegin == sec.offset + sec.entryCount * sec.entrySize + offset
    IN  IF dataBegin + size > sec.offset + sec.size THEN [err |-> "string", s |-> <<>>]
        ELSE [err |-> "none", s |-> Bytes(data, dataBegin, dataBegin + size)]

\* Package::readTypeList: the error and the types.
readTypeList(data, pkg, count, offset) ==
    LET sec == pkg.typeSection
        p == sec.offset + sec.entryCount * sec.entrySize + offset
        end == sec.offset + sec.size
        types == [i \in 1 .. count |->
                     IF p + i - 1 >= end THEN "outside" ELSE TypeOfKind(data[p + i])]
    IN  IF \E i \in 1 .. count : types[i] \in {"outside", "none"}
        THEN [err |-> "type", types |-> <<>>]
        ELSE [err |-> "none", types |-> types]

\* Package::functionByIndexLocked for a function that is not in functions_
\* yet: the error and the Function.
functionByIndexLocked(data, pkg, index) ==
    LET sec == pkg.functionSection
        e == readFunctionEntry(data, sec.offset + index * sec.entrySize)
        name == stringByIndexLocked(data, pkg, e[1])
        params == readTypeList(data, pkg, e[3], e[2])
        returns == readTypeList(data, pkg, e[5], e[4])
        blob == sec.offset + sec.entryCount * sec.entrySize
        functionSectionEnd == sec.offset + sec.size
        instBegin == blob + e[6]
        instEnd == instBegin + e[7]
        safepointsBegin == blob + e[8]
        safepointsEnd == safepointsBegin + bytesPerEntry(e[10]) * e[9]
        err == CASE name.err # "none" -> name.err
                 [] params.err # "none" -> params.err
                 [] returns.err # "none" -> returns.err
                 [] instEnd > functionSectionEnd -> "instructions"
                 [] safepointsEnd > functionSectionEnd -> "safepoints"
                 [] OTHER -> "none"
    IN  [err |-> err,
         function |-> IF err # "none" THEN NullFunction
                      ELSE [name |-> name.s, paramTypes |-> params.types,
                            returnTypes |-> returns.types,
                            insts |-> Bytes(data, instBegin, instEnd),
                            safepoints |-> [frameSize |-> e[10],
                                            data |-> Bytes(data, safepointsBegin,
                                                           safepointsEnd)]]]

\* --------------------------------------------------- package operations
\* The path readFromFile is given.
kTmpPath == "tmp.cswp"

\* Nothing was returned yet.
NoReturn == [op |-> "none"]

\* Map::find on the by-name index: the position of the key, 0 if absent.
MapFind(m, key) ==
    IF \E k \in 1 .. Len(m) : m[k].key = key
    THEN CHOOSE k \in 1 .. Len(m) : m[k].key = key
    ELSE 0

\* Map::set
MapSet(m, key, value) ==
    IF MapFind(m, key) # 0 THEN [m EXCEPT ![MapFind(m, key)].value = value]
    ELSE Append(m, [key |-> key, value |-> value])

\* functionByIndexLocked(index) on the package: the error and the package
\* with the function in functions_.
Materialize(data, pkg, index) ==
    IF pkg.functions_[index + 1] # NullFunction THEN [err |-> "none", package |-> pkg]
    ELSE LET r == functionByIndexLocked(data, pkg, index)
         IN  [err |-> r.err, package |-> [pkg EXCEPT !.functions_[index + 1] = r.function]]

\* Package::populateLocked, from index i on.
RECURSIVE populateLocked(_, _, _)
populateLocked(data, pkg, i) ==
    IF i >= Len(pkg.functions_) THEN [err |-> "none", package |-> pkg]
    ELSE LET r == Materialize(data, pkg, i)
         IN  IF r.err # "none" THEN r ELSE populateLocked(data, r.package, i + 1)

\* The loop of Package::functionByNameLocked, from index i on, when locking
\* the mutex again is passed.
RECURSIVE indexByName(_, _, _)
indexByName(data, pkg, i) ==
    IF i >= Len(pkg.functions_) THEN [err |-> "none", package |-> pkg]
    ELSE LET r == Materialize(data, pkg, i)
         IN  IF r.err # "none" THEN r
             ELSE indexByName(data,
                      [r.package EXCEPT !.functionsByName_ =
                           MapSet(@, r.package.functions_[i + 1].name, i)],
                      i + 1)

\* The instructions in the bytes from offset off on: the opcode, then the
\* little-endian immediate.
RECURSIVE DecodeInsts(_, _)
DecodeInsts(bytes, off) ==
    IF off >= Len(bytes) THEN <<>>
    ELSE LET op == OpNames[bytes[off + 1] + 1]
             width == InstSize(op) - 1
             low == IF width >= 3 THEN 3 ELSE width
             value == readBin(bytes, off + 1, low)
             arg == IF width > 3 /\ bytes[off + 5] = 255 THEN value - 256 * 256 * 256
                    ELSE value
         IN  <<[op |-> op, arg |-> arg]>> \o DecodeInsts(bytes, off + InstSize(op))

\* The Function Function::validate sees: its instructions and the entries of
\* its safepoints.
Unpack(pf) ==
    LET size == bytesPerEntry(pf.safepoints.frameSize)
    IN  [insts |-> DecodeInsts(pf.insts, 0), paramTypes |-> pf.paramTypes,
         returnTypes |-> pf.returnTypes,
         safepoints |-> [frameSize |-> pf.safepoints.frameSize,
                         entries |-> [k \in 1 .. (Len(pf.safepoints.data) \div size) |->
                                         readBin(pf.safepoints.data, (k - 1) * size, 4)]]]

\* ValidateError::ValidateError: what_ is built from the filename, the
\* definition name and the message it is constructed with.
ValidateError(filename, defName, message) ==
    [kind |-> "ValidateError", filename |-> filename, defName |-> defName,
     message |-> message,
     what_ |-> (IF filename # "" THEN <<filename, ": ">> ELSE <<>>)
                   \o (IF defName # <<>> THEN <<defName, ": ">> ELSE <<>>)
                   \o <<message>>]

\* Function::validate(package) reaches a CALL whose function index is in the
\* package: it calls package->functionByIndex, which locks mu_.
CallsFunctionByIndex(f, count) ==
    LET st == validateLoop(f, ValidateStart)
    IN  \E k \in 1 .. Len(st.trace) :
            /\ InstAt(f.insts, st.trace[k].off).op = "CALL"
            /\ InstAt(f.insts, st.trace[k].off).arg < count

\* The loop of Package::validate over functions_, from the i-th on: "ok",
\* "blocked" (mu_ is locked again and the lock waits), or the ValidateError
\* thrown by Function::validate.
RECURSIVE validateFunctions(_, _, _)
validateFunctions(fs, i, relockBlocks) ==
    IF i > Len(fs) THEN [kind |-> "ok"]
    ELSE LET f == Unpack(fs[i])
         IN  IF relockBlocks /\ CallsFunctionByIndex(f, Len(fs)) THEN [kind |-> "blocked"]
             ELSE IF ~validate(f) THEN ValidateError("", fs[i].name, "invalid")
             ELSE validateFunctions(fs, i + 1, relockBlocks)

\* ----------------------------------------------------------- package inputs
\* Names: "", "f" and "fg".  Functions: a name, one of three bodies with one
\* of two signatures, and the safepoints buildSafepoints makes for it.
Names == {<<>>, <<102>>, <<102, 103>>}

PackageBodies ==
    {<<[op |-> "RET", arg |-> 0]>>,
     <<[op |-> "INT64", arg |-> 1], [op |-> "SYS", arg |-> kSysPrintln],
       [op |-> "RET", arg |-> 0]>>,
     <<[op |-> "UNIT", arg |-> 0], [op |-> "CALL", arg |-> 0], [op |-> "B", arg |-> -6]>>,
     <<[op |-> "CALL", arg |-> 0], [op |-> "RET", arg |-> 0]>>,
     <<[op |-> "CALL", arg |-> 12], [op |-> "RET", arg |-> 0]>>}

PackageSignatures ==
    {EntrySignature, [paramTypes |-> <<"unit">>, returnTypes |-> <<"bool", "int64">>]}

PackageFunctions ==
    {PackFunction(name, MakeFunction(p, sig,
                            buildSafepoints(MakeFunction(p, sig, NoSafepoints)).safepoints)) :
        name \in Names, p \in PackageBodies, sig \in PackageSignatures}

\* Files made by hand: a file header, up to MaxSections section headers
\* with no entries and a body of zero bytes.  A plan gives a header's kind
\* (4 is no known kind), how far its offset lies from the end of the
\* section before it, and its size; extra bytes may follow the last section.
SectionPlans == [kind : 1 .. 4, gap : {-1, 0, 1}, size : {0, 1}]

RECURSIVE PlannedHeaders(_, _, _)
PlannedHeaders(plans, i, prevEnd) ==
    IF i > Len(plans) THEN <<>>
    ELSE <<[kind |-> plans[i].kind, offset |-> prevEnd + plans[i].gap,
            size |-> plans[i].size, entryCount |-> 0,
            entrySize |-> CASE plans[i].kind = SectionFUNCTION -> kFunctionEntrySize
                            [] plans[i].kind = SectionSTRING -> kStringEntrySize
                            [] OTHER -> 0]>>
             \o PlannedHeaders(plans, i + 1, prevEnd + plans[i].size)

SectionFile(plans, extra) ==
    LET endOfHeaders == kFileHeaderSize + Len(plans) * kSectionHeaderSize
        hs == PlannedHeaders(plans, 1, endOfHeaders)
        bodySize == Len(Concat([k \in 1 .. Len(plans) |-> [x \in 1 .. plans[k].size |-> 0]]))
    IN  writeBin(4, kMagic) \o writeBin(1, 0) \o writeBin(1, kWordSize)
            \o writeBin(2, Len(plans))
            \o Concat([k \in 1 .. Len(hs) |-> writeSectionHeader(hs[k])])
            \o [x \in 1 .. (bodySize + extra) |-> 0]

\* A file made by hand is about to be read.
InitReadFile ==
    /\ package1 = <<>>
    /\ \E n \in 0 .. MaxSections : \E plans \in [1 .. n -> SectionPlans] :
          \E extra \in {0, 1} : tmpFile = SectionFile(plans, extra)
    /\ package2 = NoSection
    /\ iopc = "written"
    /\ mu_ = "free"
    /\ ret = NoReturn
    /\ calls = 0

\* ---------------------------------------------------------- package actions
InitPackage ==
    /\ \E n \in 0 .. MaxFunctions : package1 \in [1 .. n -> PackageFunctions]
    /\ package1 # <<>> =>
          /\ package1[1].paramTypes = package[1].paramTypes
          /\ package1[1].returnTypes = package[1].returnTypes
    /\ tmpFile = <<>>
    /\ package2 = NoSection
    /\ iopc = "made"
    /\ mu_ = "free"
    /\ ret = NoReturn
    /\ calls = 0

\* package1->writeToFile(tmp.filename).  The MappedFile it writes through is
\* made by the constructor that takes a size, which assigns the size to its
\* own parameter and leaves the member unset; the destructor passes the
\* member to munmap.
WriteToFile ==
    /\ iopc = "made"
    /\ LET w == writeToFile(package1)
       IN  /\ tmpFile' = w.bytes
           /\ iopc' \in (IF w.asserts /\ Len(w.bytes) = w.fileSize
                         THEN {"written", "crashed"}
                         ELSE {"crashed"})
    /\ UNCHANGED <<package1, package2, mu_, ret, calls, notPackage>>

\* Package::readFromFile(tmp.filename)
ReadFromFile ==
    /\ iopc = "written"
    /\ LET r == readFromFile(tmpFile)
       IN  /\ package2' = r.package
           /\ iopc' = IF r.err = "none" THEN "read" ELSE "failed"
    /\ UNCHANGED <<package1, tmpFile, mu_, ret, calls, notPackage>>

\* package2->functionByIndex(index)
FunctionByIndex ==
    /\ iopc = "read"
    /\ \E index \in 0 .. (Len(package2.functions_) - 1) :
          /\ package2.functions_[index + 1] = NullFunction
          /\ LET r == functionByIndexLocked(tmpFile, package2, index)
             IN  /\ package2' = [package2 EXCEPT !.functions_[index + 1] = r.function]
                 /\ iopc' = IF r.err = "none" THEN "read" ELSE "failed"
    /\ UNCHANGED <<package1, tmpFile, mu_, ret, calls, notPackage>>

\* The names looked up: those of the functions, and one no function has.
LookupNames == Names \cup {<<104>>}

\* functionsByName_.get(name).get(): Map::get asserts that the key is there.
GetByName(pkg, name) ==
    LET k == MapFind(pkg.functionsByName_, name)
    IN  /\ package2' = pkg
        /\ IF k = 0
           THEN /\ iopc' = "aborted"
                /\ mu_' = "held"
                /\ ret' = [op |-> "functionByName", name |-> name, kind |-> "abort"]
           ELSE /\ iopc' = "read"
                /\ mu_' = "free"
                /\ ret' = [op |-> "functionByName", name |-> name, kind |-> "function",
                           index |-> pkg.functionsByName_[k].value]

\* package2->functionByName(name).  It holds mu_ and, when the index is still
\* empty, calls functionByIndex, which locks mu_ again: the lock waits for
\* ever, or it is passed.
FunctionByName ==
    /\ iopc = "read"
    /\ mu_ = "free"
    /\ calls < MaxCalls
    /\ calls' = calls + 1
    /\ \E name \in LookupNames :
          IF package2.functions_ = <<>> \/ package2.functionsByName_ # <<>>
          THEN GetByName(package2, name)
          ELSE \E relockBlocks \in BOOLEAN :
                  IF relockBlocks
                  THEN /\ iopc' = "blocked"
                       /\ mu_' = "held"
                       /\ ret' = [op |-> "functionByName", name |-> name, kind |-> "none"]
                       /\ UNCHANGED package2
                  ELSE LET r == indexByName(tmpFile, package2, 0)
                       IN  IF r.err # "none"
                           THEN /\ iopc' = "failed"
                                /\ package2' = r.package
                                /\ ret' = [op |-> "functionByName", name |-> name,
                                           kind |-> "Error"]
                                /\ UNCHANGED mu_
                           ELSE GetByName(r.package, name)
    /\ UNCHANGED <<package1, tmpFile, notPackage>>

\* package2->validate().  It holds mu_ while Function::validate runs, and
\* Function::validate calls functionByIndex at a CALL.
Validate ==
    /\ iopc = "read"
    /\ mu_ = "free"
    /\ calls < MaxCalls
    /\ calls' = calls + 1
    /\ LET pop == populateLocked(tmpFile, package2, 0)
       IN  /\ package2' = pop.package
           /\ IF pop.err # "none"
              THEN /\ iopc' = "failed"
                   /\ ret' = [op |-> "validate", kind |-> "Error"]
                   /\ UNCHANGED mu_
              ELSE \E relockBlocks \in BOOLEAN :
                      LET r == validateFunctions(pop.package.functions_, 1, relockBlocks)
                      IN  CASE r.kind = "blocked" ->
                                 /\ iopc' = "blocked"
                                 /\ mu_' = "held"
                                 /\ ret' = [op |-> "validate", kind |-> "none"]
                            [] r.kind = "ok" ->
                                 /\ ret' = [op |-> "validate", kind |-> "ok"]
                                 /\ UNCHANGED <<iopc, mu_>>
                            [] OTHER ->
                                 /\ ret' = [r EXCEPT !.filename = pop.package.filename_]
                                               @@ [op |-> "validate"]
                                 /\ UNCHANGED <<iopc, mu_>>
    /\ UNCHANGED <<package1, tmpFile, notPackage>>

NextPackage ==
    \/ WriteToFile
    \/ ReadFromFile
    \/ FunctionByIndex
    \/ FunctionByName
    \/ Validate

\* ---------------------------------------------------------------- Assembler
\* An int32_t as Fragment::push writes it, and as bind reads it back.
pushInt32(v) == IF v >= 0 THEN writeBin(4, v) ELSE writeBin(3, v + 16777216) \o <<255>>
readInt32(bytes, p) ==
    readBin(bytes, p, 3) + 16777216 * (IF bytes[p + 4] >= 128 THEN bytes[p + 4] - 256
                                       ELSE bytes[p + 4])

\* Assembler::ensureSpace, after its size check: a new Fragment when the
\* instruction does not fit in the last one.
ensureSpace(frags, n) ==
    IF Len(frags[Len(frags)]) + n > FragmentBytes THEN Append(frags, <<>>) ELSE frags

\* Fragment::push on the last fragment.
push(frags, bytes) == [frags EXCEPT ![Len(frags)] = @ \o bytes]

\* Assembler::addrOf: the fragment and the position in it of the byte at
\* offset, looking from fragment k whose first byte is at fragOffset.
RECURSIVE addrOf(_, _, _, _)
addrOf(frags, offset, k, fragOffset) ==
    IF k > Len(frags) THEN [frag |-> 0, pos |-> 0]
    ELSE IF offset - fragOffset < Len(frags[k]) THEN [frag |-> k, pos |-> offset - fragOffset]
    ELSE addrOf(frags, offset, k + 1, fragOffset + Len(frags[k]))

\* The 4 bytes at an address replaced.
StoreInt32(frags, a, v) ==
    [frags EXCEPT ![a.frag] = SubSeq(@, 1, a.pos) \o pushInt32(v)
                                  \o SubSeq(@, a.pos + 5, Len(@))]

\* A relative offset measured from the immediate and not from the opcode.
RelativeToImmediate(labelOffset, useOffset) == labelOffset - useOffset

\* bind: instOffset = useOffset - 1; *useAddr = labelOffset - instOffset
RelativeToOpcode(labelOffset, useOffset) == labelOffset - (useOffset - 1)

\* The while loop of Assembler::bind over the uses of the label.
RECURSIVE bindUses(_, _, _)
bindUses(frags, labelOffset, useOffset) ==
    IF useOffset = 0 THEN frags
    ELSE LET a == addrOf(frags, useOffset, 1, 0)
             nextUseOffset == readInt32(frags[a.frag], a.pos)
         IN  bindUses(StoreInt32(frags, a, RelativeToOpcode(labelOffset, useOffset)),
                      labelOffset, nextUseOffset)

\* Assembler::finish: the fragments in one list.
finish(frags) == Concat(frags)

\* Assembler::Assembler, with its labels unbound and unused.
NewLabel == [offset_ |-> 0, bound_ |-> FALSE]

InitAssembler ==
    /\ fragments_ = << <<>> >>
    /\ size_ = 0
    /\ labels = [l \in 1 .. MaxLabels |-> NewLabel]
    /\ uses = {}
    /\ bindings = [l \in 1 .. MaxLabels |-> -1]
    /\ apc = "on"

\* Assembler::nop: op(Op::NOP)
AsmNop ==
    /\ apc = "on"
    /\ size_ + 1 <= MaxAsmBytes
    /\ size_' = size_ + 1
    /\ fragments_' = push(ensureSpace(fragments_, 1), <<OpCode("NOP")>>)
    /\ UNCHANGED <<labels, uses, bindings, apc, notAssembler>>

\* Assembler::b and Assembler::bif: op1_label(op, label)
AsmBranch ==
    /\ apc = "on"
    /\ size_ + 5 <= MaxAsmBytes
    /\ \E op \in {"B", "BIF"} : \E l \in 1 .. MaxLabels :
          LET offset == size_
              imm == IF labels[l].bound_ THEN labels[l].offset_ - offset
                     ELSE labels[l].offset_
          IN  /\ size_' = size_ + 5
              /\ fragments_' = push(push(ensureSpace(fragments_, 5), <<OpCode(op)>>),
                                    pushInt32(imm))
              /\ labels' = IF labels[l].bound_ THEN labels
                           ELSE [labels EXCEPT ![l].offset_ = offset + 1]
              /\ uses' = uses \cup {[label |-> l, at |-> offset]}
    /\ UNCHANGED <<bindings, apc, notAssembler>>

\* Assembler::bind
AsmBind ==
    /\ apc = "on"
    /\ \E l \in 1 .. MaxLabels :
          /\ ~labels[l].bound_
          /\ fragments_' = bindUses(fragments_, size_, labels[l].offset_)
          /\ labels' = [labels EXCEPT ![l] = [offset_ |-> size_, bound_ |-> TRUE]]
          /\ bindings' = [bindings EXCEPT ![l] = size_]
    /\ UNCHANGED <<size_, uses, apc, notAssembler>>

NextAssembler ==
    \/ AsmNop
    \/ AsmBranch
    \/ AsmBind

\* ------------------------------------------------------- Safepoints::lookup
\* The instOffset of the entry at index i (from 0) of the table.
entryAt(es, i) == es[i + 1]

\* The tables SafepointBuilder::build makes: entries sorted by instOffset, no
\* two for the same offset.
SortedTables ==
    {es \in UNION {[1 .. n -> 1 .. MaxInstOffset] : n \in 1 .. MaxEntries} :
        \A k \in 1 .. (Len(es) - 1) : es[k] < es[k + 1]}

\* The index lookup probes.
Mid(b, e) == (e - b) \div 2

\* lookup is called with a return offset; a caller may ask for one that has no
\* entry.
InitLookup ==
    /\ entries_ \in SortedTables
    /\ lkInstOffset \in 1 .. MaxInstOffset
    /\ lkBegin = 0
    /\ lkEnd = Len(entries_)
    /\ lkResult = 0
    /\ lpc = "loop"

\* One iteration of the while loop.
LookupStep ==
    /\ lpc = "loop"
    /\ lkBegin < lkEnd
    /\ LET mid == Mid(lkBegin, lkEnd)
           lkEntry == entryAt(entries_, mid)
       IN  IF lkEntry = lkInstOffset
           THEN /\ lkResult' = mid
                /\ lpc' = "returned"
                /\ UNCHANGED <<lkBegin, lkEnd>>
           ELSE IF lkEntry < lkInstOffset
           THEN /\ lkBegin' = mid + 1
                /\ UNCHANGED <<lkEnd, lkResult, lpc>>
           ELSE /\ lkEnd' = mid
                /\ UNCHANGED <<lkBegin, lkResult, lpc>>
    /\ UNCHANGED <<entries_, lkInstOffset, notLookup>>

\* The loop ends without a match: UNREACHABLE().
LookupExit ==
    /\ lpc = "loop"
    /\ lkBegin >= lkEnd
    /\ lpc' = "unreachable"
    /\ UNCHANGED <<entries_, lkInstOffset, lkBegin, lkEnd, lkResult, notLookup>>

NextLookup == LookupStep \/ LookupExit

\* ------------------------------------- writePackageAsm and readPackageAsm
\* Assembly text is a sequence of pieces.  A piece is one character (a
\* blank, a newline, a punctuation mark, a sign, a digit) or a word: a run
\* of identifier characters that the text holds as a whole.
Mnemonics ==
    <<"nop", "sys", "ret", "call", "b", "bif", "loadarg", "loadlocal", "storearg",
      "storelocal", "unit", "true", "false", "int64", "neg", "not", "add", "sub", "mul",
      "div", "mod", "shl", "shr", "asr", "and", "or", "xor", "lt", "le", "gt", "ge", "eq",
      "ne">>

\* Inst::mnemonic and sysMnemonic
mnemonic(op) == Mnemonics[OpCode(op) + 1]
sysMnemonic(sys) == IF sys = kSysExit THEN "exit" ELSE "println"

\* operator<< on a signed integer: a sign and the decimal digits.
WriteInt(n) == IF n < 0 THEN <<"-">> \o Decimal(-n) ELSE Decimal(n)

\* writeTypeList: nothing at all for an empty list.
RECURSIVE writeTypes(_, _)
writeTypes(types, i) ==
    IF i > Len(types) THEN <<>>
    ELSE (IF i = 1 THEN <<>> ELSE <<",", " ">>) \o <<types[i]>> \o writeTypes(types, i + 1)

writeTypeList(types) ==
    IF types = <<>> THEN <<>> ELSE <<"(">> \o writeTypes(types, 1) \o <<")">>

\* The first loop of writeFunction: labelIndices, from label offset to the
\* number of the last branch that names it.
RECURSIVE labelIndices(_, _, _)
labelIndices(p, i, labelIndex) ==
    IF i > Len(p) THEN <<>>
    ELSE IF p[i].op \in {"B", "BIF"}
    THEN <<[offset |-> OffsetOf(p, i) + p[i].arg, index |-> labelIndex]>>
             \o labelIndices(p, i + 1, labelIndex + 1)
    ELSE labelIndices(p, i + 1, labelIndex)

LabelIndexAt(ls, off) ==
    LET ks == {k \in 1 .. Len(ls) : ls[k].offset = off}
    IN  IF ks = {} THEN 0 ELSE ls[CHOOSE k \in ks : \A m \in ks : m <= k].index

\* "L" << index
LabelText(index) == <<"L">> \o Decimal(index)

\* The second loop of writeFunction: one line per instruction.
RECURSIVE writeInsts(_, _, _, _)
writeInsts(pkg, p, ls, i) ==
    IF i > Len(p) THEN <<>>
    ELSE LET off == OffsetOf(p, i)
             op == p[i].op
             label == IF LabelIndexAt(ls, off) # 0
                      THEN LabelText(LabelIndexAt(ls, off)) \o <<":", "\n">>
                      ELSE <<>>
             operand ==
                 CASE op \in {"B", "BIF"} ->
                        <<" ">> \o LabelText(LabelIndexAt(ls, off + p[i].arg))
                   [] op = "CALL" -> <<" ">> \o pkg[p[i].arg + 1].name
                   [] op = "INT64" -> <<" ">> \o WriteInt(p[i].arg)
                   [] op \in {"LOADARG", "LOADLOCAL", "STOREARG", "STORELOCAL"} ->
                        <<" ">> \o Decimal(p[i].arg)
                   [] op = "SYS" -> <<" ", sysMnemonic(p[i].arg)>>
                   [] OTHER -> <<>>
         IN  (IF i = 1 THEN <<>> ELSE <<"\n">>) \o label \o <<" ", " ", mnemonic(op)>>
                 \o operand \o writeInsts(pkg, p, ls, i + 1)

writeFunction(pkg, f) ==
    <<"function", " ">> \o f.name \o writeTypeList(f.paramTypes)
        \o (IF f.returnTypes # <<>>
            THEN <<" ", "-", ">", " ">> \o writeTypeList(f.returnTypes)
            ELSE <<>>)
        \o <<" ", "{", "\n">>
        \o writeInsts(pkg, f.insts, labelIndices(f.insts, 1, 1), 1)
        \o <<"\n", "}">>

RECURSIVE writeFunctions(_, _)
writeFunctions(pkg, i) ==
    IF i > Len(pkg) THEN <<>>
    ELSE (IF i = 1 THEN <<>> ELSE <<"\n", "\n">>) \o writeFunction(pkg, pkg[i])
             \o writeFunctions(pkg, i + 1)

writePackageAsm(pkg) == writeFunctions(pkg, 1) \o <<"\n">>

\* ---- AsmLexer.  Indices are the lexer's: the first piece is data_[0].
DataAt(data, k) == data[k + 1]
isDigit(b) == \E d \in 1 .. 10 : Digits[d] = b
NotWord ==
    {" ", "\t", "\n", "(", ")", "{", "}", ",", ":", "/", "-", "+", ">"}
isIdentFirst(b) == b \notin NotWord /\ ~isDigit(b)
isIdent(b) == isIdentFirst(b) \/ isDigit(b)

Token(kind, data, begin, end) == [kind |-> kind, text |-> SubSeq(data, begin + 1, end)]

RECURSIVE SkipWhile(_, _, _)
SkipWhile(data, j, kind) ==
    IF j < Len(data)
       /\ (CASE kind = "comment" -> DataAt(data, j) # "\n"
             [] kind = "ident" -> isIdent(DataAt(data, j))
             [] OTHER -> isDigit(DataAt(data, j)))
    THEN SkipWhile(data, j + 1, kind)
    ELSE j

PunctKind(b) ==
    CASE b = "(" -> "LPAREN" [] b = ")" -> "RPAREN" [] b = "{" -> "LBRACE"
      [] b = "}" -> "RBRACE" [] b = "," -> "COMMA" [] OTHER -> "COLON"

\* The digit case of lexFile, with i already past the first character b.
\* The result is the token and the index to go on at, an error, or "ub"
\* when the lexer reads data_ past its end.
LexInt(data, i, b) ==
    LET signed == b \in {"-", "+"}
        j == IF signed THEN i + 1 ELSE i
        c == IF signed /\ j < Len(data) THEN DataAt(data, j) ELSE b
    IN  IF signed /\ j = Len(data) THEN [err |-> "ParseError"]
        ELSE IF signed /\ j > Len(data) THEN [err |-> "ub"]
        ELSE IF c = "0"
        THEN IF j + 1 < Len(data) /\ isDigit(DataAt(data, j + 1))
             THEN [err |-> "ParseError"]
             ELSE [err |-> "none", token |-> Token("INT", data, i - 1, j), next |-> i]
        ELSE IF ~isDigit(c) THEN [err |-> "ParseError"]
        ELSE LET e == SkipWhile(data, j, "digit")
             IN  [err |-> "none", token |-> Token("INT", data, i - 1, e), next |-> e]

\* One turn of the loop of lexFile, at i0 < data_.size() with the tokens
\* made so far: [err, i, tokens], i being where the next turn starts.
lexFile(data, i0, tokens) ==
    LET b == DataAt(data, i0)
        i == i0 + 1
        Go(next, ts) == [err |-> "none", i |-> next, tokens |-> ts]
        Stop(e) == [err |-> e, i |-> i0, tokens |-> tokens]
    IN  CASE b \in {" ", "\t"} -> Go(i, tokens)
          [] b = "\n" ->
               Go(i, IF tokens # <<>> /\ tokens[Len(tokens)].kind \in {"IDENT", "INT"}
                     THEN Append(tokens, Token("NEWLINE", data, i - 1, i))
                     ELSE tokens)
          [] b \in {"(", ")", "{", "}", ",", ":"} ->
               Go(i, Append(tokens, Token(PunctKind(b), data, i - 1, i)))
          [] b = "/" ->
               IF i < Len(data) /\ DataAt(data, i) = "/"
               THEN Go(SkipWhile(data, i + 1, "comment"), tokens)
               ELSE Stop("ParseError")
          [] OTHER ->
               IF b = "-" /\ i < Len(data) /\ DataAt(data, i) = ">"
               THEN Go(i + 1, Append(tokens, Token("RARROW", data, i - 1, i + 1)))
               ELSE IF isIdentFirst(b)
               THEN LET j == SkipWhile(data, i, "ident")
                    IN  Go(j, Append(tokens, Token("IDENT", data, i - 1, j)))
               ELSE LET r == LexInt(data, i, b)
                    IN  IF r.err # "none" THEN Stop(r.err)
                        ELSE Go(r.next, Append(tokens, r.token))

\* A local variable of the code: value is computed once, F is what follows.
Local(value, F(_)) == CHOOSE result \in {F(v) : v \in {value}} : TRUE

\* ---- AsmParser.  it is the position of it_ in tokens_, from 1; a result
\* is [err, it, value].  Reading *it_ at tokens_.end() is "ub".
peek(ts, it) == IF it > Len(ts) THEN "END" ELSE ts[it].kind
Fail(ts, it) == [err |-> IF it > Len(ts) THEN "ub" ELSE "ParseError", it |-> it, value |-> <<>>]
Ok(it, value) == [err |-> "none", it |-> it, value |-> value]

\* expect(kind): the token, and it_ past it.
expect(ts, it, kind) == IF peek(ts, it) = kind THEN Ok(it + 1, ts[it]) ELSE Fail(ts, it)

RECURSIVE parseTypes(_, _, _)
parseTypes(ts, it, types) ==
    IF peek(ts, it) = "END" THEN Fail(ts, it)
    ELSE IF peek(ts, it) = "RPAREN" THEN Ok(it + 1, types)
    ELSE Local(IF types # <<>> THEN expect(ts, it, "COMMA") ELSE Ok(it, <<>>), LAMBDA c :
         IF c.err # "none" THEN c
         ELSE Local(expect(ts, c.it, "IDENT"), LAMBDA t :
              IF t.err # "none" THEN t
              ELSE parseTypes(ts, t.it, Append(types, t.value.text))))

parseTypeList(ts, it) ==
    LET l == expect(ts, it, "LPAREN")
    IN  IF l.err # "none" THEN l ELSE parseTypes(ts, l.it, <<>>)

RECURSIVE parseOperands(_, _, _)
parseOperands(ts, it, operands) ==
    IF peek(ts, it) = "END" THEN Fail(ts, it)
    ELSE IF peek(ts, it) = "NEWLINE" THEN Ok(it + 1, operands)
    ELSE Local(IF operands # <<>> THEN expect(ts, it, "COMMA") ELSE Ok(it, <<>>), LAMBDA c :
         IF c.err # "none" THEN c
         ELSE IF peek(ts, c.it) \in {"IDENT", "INT"}
         THEN parseOperands(ts, c.it + 1, Append(operands, ts[c.it]))
         ELSE Fail(ts, c.it))

NoLabel == [kind |-> "NONE", text |-> <<>>]

parseInst(ts, it) ==
    Local(expect(ts, it, "IDENT"), LAMBDA m1 :
    IF m1.err # "none" THEN m1
    ELSE IF m1.it > Len(ts) THEN Fail(ts, m1.it)
    ELSE LET labelled == peek(ts, m1.it) = "COLON"
         IN  Local(IF labelled THEN expect(ts, m1.it + 1, "IDENT") ELSE m1, LAMBDA m2 :
             IF m2.err # "none" THEN m2
             ELSE Local(parseOperands(ts, m2.it, <<>>), LAMBDA rest :
                  IF rest.err # "none" THEN rest
                  ELSE Ok(rest.it, [label |-> IF labelled THEN m1.value ELSE NoLabel,
                                    mnemonic |-> m2.value, operands |-> rest.value]))))

RECURSIVE parseInsts(_, _, _)
parseInsts(ts, it, insts) ==
    IF peek(ts, it) = "END" THEN Fail(ts, it)
    ELSE IF peek(ts, it) = "RBRACE" THEN Ok(it + 1, insts)
    ELSE Local(parseInst(ts, it), LAMBDA r :
         IF r.err # "none" THEN r ELSE parseInsts(ts, r.it, Append(insts, r.value)))

parseFunctionBody(ts, it) ==
    LET l == expect(ts, it, "LBRACE")
    IN  IF l.err # "none" THEN l ELSE parseInsts(ts, l.it, <<>>)

parseFunction(ts, it) ==
    Local(expect(ts, it, "IDENT"), LAMBDA kw :
    IF kw.err # "none" THEN kw
    ELSE IF kw.value.text # <<"function">> THEN [Fail(ts, it) EXCEPT !.err = "ParseError"]
    ELSE Local(expect(ts, kw.it, "IDENT"), LAMBDA name :
    IF name.err # "none" THEN name
    ELSE Local(parseTypeList(ts, name.it), LAMBDA params :
    IF params.err # "none" THEN params
    ELSE IF params.it > Len(ts) THEN Fail(ts, params.it)
    ELSE Local(IF peek(ts, params.it) = "RARROW" THEN parseTypeList(ts, params.it + 1)
               ELSE Ok(params.it, <<>>), LAMBDA returns :
    IF returns.err # "none" THEN returns
    ELSE Local(parseFunctionBody(ts, returns.it), LAMBDA body :
    IF body.err # "none" THEN body
    ELSE Ok(body.it, [name |-> name.value, paramTypes |-> params.value,
                      returnTypes |-> returns.value, insts |-> body.value]))))))

RECURSIVE parseFile(_, _, _)
parseFile(ts, it, functions) ==
    IF it > Len(ts) THEN Ok(it, functions)
    ELSE IF ts[it] # [kind |-> "IDENT", text |-> <<"function">>]
    THEN [Fail(ts, it) EXCEPT !.err = "ParseError"]
    ELSE Local(parseFunction(ts, it), LAMBDA r :
         IF r.err # "none" THEN r ELSE parseFile(ts, r.it, Append(functions, r.value)))

\* ---- PackageBuilder
\* std::stoull and std::stoll of a token's text: the sign and the digits.
RECURSIVE DigitsValue(_, _)
DigitsValue(text, acc) ==
    IF text = <<>> THEN acc
    ELSE DigitsValue(Tail(text), 10 * acc + ((CHOOSE d \in 1 .. 10 : Digits[d] = text[1]) - 1))

IntValue(text) ==
    IF text[1] = "-" THEN -DigitsValue(Tail(text), 0)
    ELSE IF text[1] = "+" THEN DigitsValue(Tail(text), 0)
    ELSE DigitsValue(text, 0)

\* PackageBuilder::build's first loop: functionNameToIndex_[name] = i.
functionNameToIndex(fs, name) ==
    LET ks == {k \in 1 .. Len(fs) : fs[k].name.text = name}
    IN  IF ks = {} THEN -1 ELSE (CHOOSE k \in ks : \A m \in ks : m <= k) - 1

TypeNames == {<<"unit">>, <<"bool">>, <<"int64">>}

NoOperand ==
    {"nop", "ret", "unit", "true", "false", "neg", "not", "add", "sub", "mul", "div",
     "mod", "shl", "shr", "asr", "and", "or", "xor", "lt", "le", "gt", "ge", "eq", "ne"}

\* The operand of the instruction as PackageBuilder::buildFunction reads it:
\* [err, arg]; the arg of b and bif is filled in when the label is known.
buildOperand(fs, m, operands) ==
    LET t == operands[1]
        bad == [err |-> "ParseError", arg |-> 0]
    IN  CASE m \in {"b", "bif"} ->
               IF t.kind # "IDENT" THEN bad ELSE [err |-> "none", arg |-> 0]
          [] m = "call" ->
               IF t.kind # "IDENT" \/ functionNameToIndex(fs, t.text) < 0 THEN bad
               ELSE [err |-> "none", arg |-> functionNameToIndex(fs, t.text)]
          [] m = "int64" ->
               IF t.kind # "INT" THEN bad ELSE [err |-> "none", arg |-> IntValue(t.text)]
          [] m = "sys" ->
               IF t.kind # "IDENT" THEN bad
               ELSE IF t.text = <<"exit">> THEN [err |-> "none", arg |-> kSysExit]
               ELSE IF t.text = <<"println">> THEN [err |-> "none", arg |-> kSysPrintln]
               ELSE bad
          [] OTHER ->
               IF t.kind # "INT" \/ IntValue(t.text) < 0 \/ IntValue(t.text) >= 65536 THEN bad
               ELSE [err |-> "none", arg |-> IntValue(t.text)]

\* The loop of buildFunction over the instructions: the opcodes with their
\* operands, the offset each label was bound at, and the label each branch
\* names.  A state is [err, insts, bound, uses].
RECURSIVE buildInsts(_, _, _, _)
buildInsts(fs, src, i, st) ==
    IF i > Len(src) \/ st.err # "none" THEN st
    ELSE LET inst == src[i]
             labelled == inst.label.kind = "IDENT"
             rebound == labelled /\ \E k \in 1 .. Len(st.bound) : st.bound[k].name = inst.label.text
             bound == IF labelled
                      THEN Append(st.bound, [name |-> inst.label.text,
                                             offset |-> CodeLength(st.insts)])
                      ELSE st.bound
             word == inst.mnemonic.text
             known == Len(word) = 1 /\ \E k \in 1 .. Len(Mnemonics) : Mnemonics[k] = word[1]
             m == word[1]
             wantOpCount == IF known /\ m \notin NoOperand THEN 1 ELSE 0
             operand == IF wantOpCount = 1 THEN buildOperand(fs, m, inst.operands)
                        ELSE [err |-> "none", arg |-> 0]
             op == OpNames[CHOOSE k \in 1 .. Len(Mnemonics) : Mnemonics[k] = m]
         IN  IF rebound \/ Len(inst.operands) # wantOpCount \/ ~known THEN [st EXCEPT !.err = "ParseError"]
             ELSE IF operand.err # "none" THEN [st EXCEPT !.err = "ParseError"]
             ELSE Local([err |-> "none",
                         insts |-> Append(st.insts, [op |-> op, arg |-> operand.arg]),
                         bound |-> bound,
                         uses |-> IF m \in {"b", "bif"}
                                  THEN Append(st.uses, [at |-> Len(st.insts) + 1,
                                                        name |-> inst.operands[1].text])
                                  ELSE st.uses],
                        LAMBDA next : buildInsts(fs, src, i + 1, next))

\* Assembler::bind and the branches: the operand of a branch is the offset
\* its label was bound at minus the offset of the branch.
patch(st, k) ==
    LET ks == {u \in 1 .. Len(st.uses) : st.uses[u].at = k}
        name == st.uses[CHOOSE u \in ks : TRUE].name
        b == CHOOSE j \in 1 .. Len(st.bound) : st.bound[j].name = name
    IN  IF ks = {} THEN st.insts[k]
        ELSE [st.insts[k] EXCEPT !.arg = st.bound[b].offset - OffsetOf(st.insts, k)]

buildFunction(fs, f) ==
    Local(buildInsts(fs, f.insts, 1,
                     [err |-> "none", insts |-> <<>>, bound |-> <<>>, uses |-> <<>>]),
          LAMBDA st :
    LET unbound == \E u \in 1 .. Len(st.uses) :
                       \A j \in 1 .. Len(st.bound) : st.bound[j].name # st.uses[u].name
        badType == \E i \in 1 .. Len(f.paramTypes) : f.paramTypes[i] \notin TypeNames
        badRet == \E i \in 1 .. Len(f.returnTypes) : f.returnTypes[i] \notin TypeNames
    IN  IF badType \/ badRet \/ st.err # "none" \/ unbound
        THEN [err |-> "ParseError", function |-> <<>>]
        ELSE [err |-> "none",
              function |-> [name |-> f.name.text,
                            paramTypes |-> [i \in 1 .. Len(f.paramTypes) |-> f.paramTypes[i][1]],
                            returnTypes |-> [i \in 1 .. Len(f.returnTypes) |-> f.returnTypes[i][1]],
                            insts |-> [k \in 1 .. Len(st.insts) |-> patch(st, k)]]])

build(fs) ==
    IF \E i \in 1 .. Len(fs) : buildFunction(fs, fs[i]).err # "none"
    THEN [err |-> "ParseError", functions |-> <<>>]
    ELSE [err |-> "none", functions |-> [i \in 1 .. Len(fs) |-> buildFunction(fs, fs[i]).function]]

\* AsmParser(tokens).parseFile() and PackageBuilder(syntax).build(): the
\* package, or the error raised.
Assemble(tokens) ==
    Local(parseFile(tokens, 1, <<>>), LAMBDA parsed :
          IF parsed.err # "none" THEN [err |-> parsed.err, functions |-> <<>>]
          ELSE build(parsed.value))

\* ---- inputs: source files as a programmer writes them.
SrcExit ==
    <<"function", " ", "main", "(", ")", " ", "{", "\n",
      " ", "int64", " ", "0", "\n",
      " ", "sys", " ", "exit", "\n",
      "}", "\n">>
SrcAdd ==
    <<"function", " ", "add", "(", "int64", ",", " ", "int64", ")", " ", "-", ">", " ",
      "(", "int64", ")", " ", "{", "\n",
      " ", "loadarg", " ", "0", "\n",
      " ", "loadarg", " ", "1", "\n",
      " ", "add", "\n",
      " ", "ret", "\n",
      "}", "\n">>
SrcCaller ==
    <<"function", " ", "run", "(", ")", " ", "{", " ", "/", "/", " ", "S4", "\n",
      " ", "int64", " ", "7", "\n",
      " ", "int64", " ", "8", "\n",
      " ", "call", " ", "add", "\n",
      " ", "sys", " ", "println", "\n",
      " ", "int64", " ", "0", "\n",
      " ", "sys", " ", "exit", "\n",
      "}", "\n">>
SrcPick ==
    <<"function", " ", "pick", "(", "bool", ")", " ", "-", ">", " ", "(", "int64", ")",
      " ", "{", "\n",
      " ", "loadarg", " ", "0", "\n",
      " ", "bif", " ", "yes", "\n",
      " ", "int64", " ", "1", "0", "\n",
      " ", "ret", "\n",
      "yes", ":", " ", "int64", " ", "2", "0", "\n",
      " ", "ret", "\n",
      "}", "\n">>
SrcMinus ==
    <<"function", " ", "minus", "(", "int64", ")", " ", "-", ">", " ", "(", "int64", ")",
      " ", "{", "\n",
      " ", "int64", " ", "-", "0", "1", "\n",
      " ", "ret", "\n",
      "}", "\n">>
SrcId ==
    <<"function", " ", "id", "(", "int64", ")", " ", "-", ">", " ", "(", "int64", ")",
      " ", "{", "\n",
      " ", "loadarg", " ", "0", "\n",
      " ", "ret", "\n",
      "}", "\n">>
SrcSpin ==
    <<"function", " ", "spin", "(", "unit", ")", " ", "{", "\n",
      "top", ":", "\n",
      " ", "nop", "\n",
      " ", "b", " ", "top", "\n",
      "}", "\n">>
SourceFunctions == {SrcExit, SrcAdd, SrcCaller, SrcPick, SrcMinus, SrcId, SrcSpin}

kSrcPath == "src.csws"
kOutPath == "out.csws"

\* ---- actions
NoLexer == [data |-> <<>>, i |-> 0, tokens |-> <<>>]

\* The file at kSrcPath as a programmer wrote it; nothing is assembled yet.
InitText ==
    /\ \E n \in 1 .. MaxAsmFunctions : \E fs \in [1 .. n -> SourceFunctions] :
          asmFiles = [path \in {kSrcPath} |->
                         IF n = 1 THEN fs[1] ELSE fs[1] \o <<"\n">> \o fs[2]]
    /\ dis = <<>>
    /\ asmPackage1 = <<>>
    /\ asmPackage2 = [err |-> "none", functions |-> <<>>]
    /\ lexer = NoLexer
    /\ tpc = "start"

\* What the caller of readPackageAsm gets: the package, or the error; an
\* error of the first call ends the run.
Returned(r) ==
    IF tpc = "lex1"
    THEN /\ asmPackage1' = r.functions
         /\ tpc' = IF r.err = "none" THEN "assembled" ELSE "failed"
         /\ UNCHANGED asmPackage2
    ELSE /\ asmPackage2' = r
         /\ tpc' = "read"
         /\ UNCHANGED asmPackage1

\* readPackageAsm(filename, is) up to the lexer: readFile(filename) is what
\* the lexer is given, whatever the stream is holds.  The first call reads
\* the source file; the second one is the call on the written text.
ReadPackageAsm ==
    /\ tpc \in {"start", "written"}
    /\ \E filename \in (IF tpc = "start" THEN {kSrcPath} ELSE {kSrcPath, kOutPath}) :
          IF filename \notin DOMAIN asmFiles
          THEN /\ asmPackage2' = [err |-> "FileError", functions |-> <<>>]
               /\ tpc' = "read"
               /\ UNCHANGED <<lexer, asmPackage1>>
          ELSE /\ lexer' = [data |-> asmFiles[filename], i |-> 0, tokens |-> <<>>]
               /\ tpc' = IF tpc = "start" THEN "lex1" ELSE "lex2"
               /\ UNCHANGED <<asmPackage1, asmPackage2>>
    /\ UNCHANGED <<asmFiles, dis, notText>>

\* AsmLexer::lexFile: one turn of its loop.  A read past the end of data_
\* either raises or crashes.
LexFile ==
    /\ tpc \in {"lex1", "lex2"}
    /\ lexer.i < Len(lexer.data)
    /\ LET r == lexFile(lexer.data, lexer.i, lexer.tokens)
       IN  IF r.err = "none"
           THEN /\ lexer' = [lexer EXCEPT !.i = r.i, !.tokens = r.tokens]
                /\ UNCHANGED <<asmPackage1, asmPackage2, tpc>>
           ELSE /\ lexer' = NoLexer
                /\ \E e \in (IF r.err = "ub" THEN {"ParseError", "crashed"} ELSE {r.err}) :
                      Returned([err |-> e, functions |-> <<>>])
    /\ UNCHANGED <<asmFiles, dis, notText>>

\* The rest of readPackageAsm once the lexer is at the end of the file:
\* the parser and the builder.
ParseFile ==
    /\ tpc \in {"lex1", "lex2"}
    /\ lexer.i >= Len(lexer.data)
    /\ \E r \in {Assemble(lexer.tokens)} :
          \E e \in (IF r.err = "ub" THEN {"ParseError", "crashed"} ELSE {r.err}) :
             Returned([r EXCEPT !.err = e])
    /\ lexer' = NoLexer
    /\ UNCHANGED <<asmFiles, dis, notText>>

\* writePackageAsm(os, package1): os is a std::stringstream, or the stream
\* of the file at kOutPath.
WritePackageAsm ==
    /\ tpc = "assembled"
    /\ \E text \in {writePackageAsm(asmPackage1)} : \E toFile \in BOOLEAN :
          /\ dis' = text
          /\ asmFiles' = IF toFile
                         THEN [path \in DOMAIN asmFiles \cup {kOutPath} |->
                                  IF path = kOutPath THEN text ELSE asmFiles[path]]
                         ELSE asmFiles
    /\ tpc' = "written"
    /\ UNCHANGED <<asmPackage1, asmPackage2, lexer, notText>>

NextText == ReadPackageAsm \/ LexFile \/ ParseFile \/ WritePackageAsm

\* --------------------------------------------- two mutators on the one heap
\* Each thread keeps the pointer its last Heap::allocate returned in a local
\* of its own.  Heap::allocate and Heap::recordWrite hold Heap::mu_;
\* Handle<T>::Handle holds HandleStorage::mu_ only, and nothing is held
\* between two calls.
Threads == 1 .. 2

\* The sizes the threads ask for: all within kMaxBlockSize.
ThreadAllocSizes == {0, 1, 9, 17}

InitThreads ==
    /\ locals = [t \in Threads |-> 0]
    /\ holder = 0

\* Heap::allocate of thread t from "bytesAllocated_ += blockSize" to the
\* return, which releases mu_.
ThreadFinishAllocate(t, size) ==
    LET r == AllocateIn([status |-> "ok", block |-> 0, chunks |-> chunks,
                         lists |-> chunksBySize, mem |-> mem,
                         bytes |-> bytesAllocated_], align(size, kBlockAlignment))
    IN  /\ r.status # "nochunk"
        /\ IF r.status = "crash"
           THEN /\ pc' = "crashed"
                /\ UNCHANGED <<chunks, chunksBySize, mem, bytesAllocated_, pending,
                               locals, holder>>
           ELSE /\ chunks' = r.chunks
                /\ chunksBySize' = r.lists
                /\ mem' = r.mem
                /\ bytesAllocated_' = r.bytes
                /\ locals' = [locals EXCEPT ![t] = r.block]
                /\ holder' = 0
                /\ pc' = "idle"
                /\ pending' = 0
        /\ UNCHANGED <<ptrBits, markBits, allocationLimit_, gcPhase_, markStack_,
                       slots_, free_, handles, rootFields, fresh, last>>

\* Heap::allocate(size) called by thread t: it takes mu_, and either returns
\* a block or starts collectGarbageLocked with scanRootsLocked.
ThreadAllocate(t, size) ==
    /\ pc = "idle"
    /\ holder = 0
    /\ UNCHANGED notThreads
    /\ StartOp
    /\ IF size = 0
       THEN /\ locals' = [locals EXCEPT ![t] = kZeroAllocAddress]
            /\ UNCHANGED <<chunks, chunksBySize, mem, ptrBits, markBits,
                           bytesAllocated_, allocationLimit_, gcPhase_, markStack_,
                           slots_, free_, handles, rootFields, fresh, pc, pending,
                           last, holder>>
       ELSE IF bytesAllocated_ + align(size, kBlockAlignment) >= allocationLimit_
               /\ gcPhase_ = "NONE"
       THEN LET r == scanRootsLocked
            IN  /\ markStack_' = r.stack
                /\ pc' = IF r.ok THEN "mark" ELSE "crashed"
                /\ pending' = size
                /\ holder' = t
                /\ UNCHANGED <<chunks, chunksBySize, mem, ptrBits, markBits,
                               bytesAllocated_, allocationLimit_, gcPhase_, slots_,
                               free_, handles, rootFields, fresh, last, locals>>
       ELSE ThreadFinishAllocate(t, size)

\* One iteration of the loop of Heap::markLocked, in the holder's allocate.
ThreadMarkStep ==
    /\ pc = "mark"
    /\ holder # 0
    /\ markStack_ # <<>>
    /\ UNCHANGED <<notThreads, ops>>
    /\ LET r == markIteration
       IN  /\ Len(r.stack) <= MaxMarkStack
           /\ markStack_' = r.stack
           /\ markBits' = r.mark
           /\ pc' = IF r.ok THEN "mark" ELSE "crashed"
    /\ UNCHANGED <<chunks, chunksBySize, mem, ptrBits, bytesAllocated_,
                   allocationLimit_, gcPhase_, slots_, free_, handles, rootFields,
                   fresh, pending, last, locals, holder>>

\* Heap::sweepLocked in the holder's allocate: every block without a mark is
\* freed, whichever thread's local still holds its address.
ThreadSweepStep ==
    /\ pc = "mark"
    /\ holder # 0
    /\ markStack_ = <<>>
    /\ UNCHANGED <<notThreads, ops>>
    /\ LET r == sweepLocked
       IN  IF ~r.ok
           THEN /\ pc' = "crashed"
                /\ UNCHANGED <<chunks, chunksBySize, mem, ptrBits, markBits,
                               bytesAllocated_, allocationLimit_>>
           ELSE /\ chunks' = r.chunks
                /\ chunksBySize' = r.lists
                /\ mem' = r.mem
                /\ ptrBits' = r.ptr
                /\ markBits' = r.mark
                /\ bytesAllocated_' = r.bytes
                /\ allocationLimit_' = 2 * r.bytes
                /\ pc' = "resume"
    /\ UNCHANGED <<gcPhase_, markStack_, slots_, free_, handles, rootFields, fresh,
                   pending, last, locals, holder>>

\* The holder's allocate goes on after its collection.
ThreadResumeAllocate ==
    /\ pc = "resume"
    /\ holder # 0
    /\ UNCHANGED <<notThreads, ops>>
    /\ ThreadFinishAllocate(holder, pending)

\* Handle<T>::Handle(T* block) of thread t on the pointer in its local: it
\* needs HandleStorage::mu_ only, so it runs while the other thread is inside
\* allocate as well.
ThreadHandleCreate(t, h) ==
    /\ pc \in {"idle", "mark", "resume"}
    /\ holder # t
    /\ UNCHANGED notThreads
    /\ StartOp
    /\ handles[h] = 0
    /\ locals[t] # 0
    /\ LET r == allocSlot
       IN  /\ slots_' = [r.slots EXCEPT ![SlotIndex(r.slot)] = locals[t]]
           /\ free_' = r.free
           /\ handles' = [handles EXCEPT ![h] = r.slot]
    /\ UNCHANGED <<chunks, chunksBySize, mem, ptrBits, markBits, bytesAllocated_,
                   allocationLimit_, gcPhase_, markStack_, rootFields, fresh, pc,
                   pending, last, locals, holder>>

\* The blocks some live Handle holds.
HandleBlocks ==
    {slots_[SlotIndex(handles[h])] : h \in {x \in 1 .. MaxHandles : handles[x] # 0}}

\* Ptr<T>::set of thread t: the pointer in its local goes into the first word
\* of a block a Handle holds, and Heap::recordWrite sets the pointer bit
\* under mu_.
ThreadPtrStore(t, h) ==
    /\ pc = "idle"
    /\ holder = 0
    /\ UNCHANGED notThreads
    /\ StartOp
    /\ handles[h] # 0
    /\ locals[t] # 0
    /\ LET a == slots_[SlotIndex(handles[h])]
       IN  /\ IsAllocatedBlock(a)
           /\ mem' = [mem EXCEPT ![a] = locals[t]]
           /\ ptrBits' = ptrBits \cup {a}
    /\ UNCHANGED <<chunks, chunksBySize, markBits, bytesAllocated_, allocationLimit_,
                   gcPhase_, markStack_, slots_, free_, handles, rootFields, fresh,
                   pc, pending, last, locals, holder>>

NextThreads ==
    \/ \E t \in Threads : \E size \in ThreadAllocSizes : ThreadAllocate(t, size)
    \/ ThreadMarkStep
    \/ ThreadSweepStep
    \/ ThreadResumeAllocate
    \/ \E t \in Threads : \E h \in 1 .. MaxHandles : ThreadHandleCreate(t, h)
    \/ \E t \in Threads : \E h \in 1 .. MaxHandles : ThreadPtrStore(t, h)

\* ------------------------------------------------ collections of one graph
\* A heap as allocate, Handle<T>::Handle and Ptr<T>::set leave it: two
\* blocks of two words next to the Roots' blocks, one of them held by a
\* Handle at its first or at its second word, and any of their words holding
\* a pointer to the first or to the second word of either block.
GraphHeap1 == AllocateIn(RootsHeap3, 2 * kWordSize)
GraphHeap2 == AllocateIn(GraphHeap1, 2 * kWordSize)
GraphBlocks == {GraphHeap1.block, GraphHeap2.block}
GraphWords == UNION {WordsOfBlock(b, 2 * kWordSize) : b \in GraphBlocks}

InitGraph ==
    /\ chunks = GraphHeap2.chunks
    /\ chunksBySize = GraphHeap2.lists
    /\ bytesAllocated_ = GraphHeap2.bytes
    /\ \E held \in GraphWords : \E stored \in [GraphWords -> {0} \cup GraphWords] :
          /\ slots_ = <<held>>
          /\ ptrBits = {w \in GraphWords : stored[w] # 0}
          /\ mem = [a \in DOMAIN GraphHeap2.mem |->
                       IF a \in GraphWords THEN stored[a] ELSE GraphHeap2.mem[a]]
    /\ markBits = {}
    /\ allocationLimit_ = kInitialAllocationLimit
    /\ gcPhase_ = "NONE"
    /\ markStack_ = <<>>
    /\ free_ = 0
    /\ handles = [h \in 1 .. MaxHandles |-> IF h = 1 THEN SlotAddr(1) ELSE 0]
    /\ rootFields = <<RootsHeap1.block, RootsHeap2.block, RootsHeap3.block>>
    /\ fresh = 0
    /\ pc = "idle"
    /\ pending = 0
    /\ last = Idle
    /\ ops = 0

NextCollector == CollectGarbage \/ MarkStep \/ SweepStep

\* ---------------------------------------------------------------- validate
\* Heap::isOnHeap
isOnHeap(addr) ==
    \E s \in DOMAIN chunksBySize : \E k \in 1 .. Len(chunksBySize[s]) :
        fromAddress(addr) = chunksBySize[s][k]

\* Chunk::validate, the words of one marked block of the chunk c, whose
\* mutex the caller holds.  "relock" is the call of c->isMarked, which
\* locks the mutex of the chunk the word points into, on the chunk c itself.
RECURSIVE ValidateWords(_, _, _, _, _)
ValidateWords(c, block, i, wordsPerBlock, mb) ==
    IF i >= wordsPerBlock THEN "ok"
    ELSE LET slot == block + i * kWordSize
             p == mem[slot]
             d == fromAddress(p)
         IN  IF slot \in ptrBits /\ p # 0
             THEN IF ~isOnHeap(p) THEN "abort"
                  ELSE IF ~(d + kDataOffset <= p /\ p <= chunks[d].freeSpace_)
                  THEN "abort"
                  ELSE IF d = c THEN "relock"
                  ELSE IF ChunkBlockContaining(d, p) \notin mb THEN "abort"
                  ELSE ValidateWords(c, block, i + 1, wordsPerBlock, mb)
             ELSE ValidateWords(c, block, i + 1, wordsPerBlock, mb)

\* Chunk::validate, the free space: zero words without mark or pointer bits.
ValidateFreeSpace(c, hdr, mb) ==
    IF \A w \in DataAddrs(c) :
           w >= hdr.freeSpace_ => (mem[w] = 0 /\ w \notin ptrBits /\ w \notin mb)
    THEN "ok" ELSE "abort"

\* Chunk::validate, the loop over the blocks below the free space.
RECURSIVE ValidateBlocks(_, _, _, _, _, _)
ValidateBlocks(c, hdr, block, free, bytes, mb) ==
    LET rest == {block + i * kWordSize :
                    i \in 1 .. ((hdr.blockSize_ \div kWordSize) - 1)}
    IN  IF block >= hdr.freeSpace_
        THEN IF bytes = hdr.bytesAllocated_ THEN ValidateFreeSpace(c, hdr, mb)
             ELSE "abort"
        ELSE IF block \in mb
        THEN LET r == ValidateWords(c, block, 0, hdr.blockSize_ \div kWordSize, mb)
             IN  IF r # "ok" THEN r
                 ELSE ValidateBlocks(c, hdr, block + hdr.blockSize_, free,
                                     bytes + hdr.blockSize_, mb)
        ELSE IF free = block
        THEN IF /\ block \notin ptrBits
                /\ \A w \in rest : mem[w] = 0 /\ w \notin ptrBits /\ w \notin mb
             THEN ValidateBlocks(c, hdr, block + hdr.blockSize_, mem[block],
                                 bytes, mb)
             ELSE "abort"
        ELSE IF \A w \in rest : w \notin mb
        THEN ValidateBlocks(c, hdr, block + hdr.blockSize_, free,
                            bytes + hdr.blockSize_, mb)
        ELSE "abort"

\* Chunk::validate
ChunkValidate(c, mb) ==
    ValidateBlocks(c, chunks[c], c + kDataOffset, chunks[c].freeList_, 0, mb)

\* Heap::validate, the loop over one chunk list.
RECURSIVE ValidateList(_, _, _)
ValidateList(list, k, st) ==
    IF k > Len(list) \/ st.out # "ok" THEN st
    ELSE IF list[k] = 0 THEN [st EXCEPT !.out = "abort"]
    ELSE ValidateList(list, k + 1,
             [out |-> ChunkValidate(list[k], markBits),
              bytes |-> st.bytes + chunks[list[k]].bytesAllocated_])

\* Heap::validate, the loop over the block sizes in todo.
RECURSIVE ValidateSizes(_, _)
ValidateSizes(todo, st) ==
    IF todo = {} \/ st.out # "ok" THEN st
    ELSE LET bs == CHOOSE x \in todo : \A y \in todo : x <= y
         IN  ValidateSizes(todo \ {bs}, ValidateList(chunksBySize[bs], 1, st))

\* Heap::validate after markLocked: "ok" when it returns, "abort" when an
\* ASSERT fails, "relock" when it locks a mutex it holds.
validateChunks ==
    LET st == ValidateSizes(DOMAIN chunksBySize, [out |-> "ok", bytes |-> 0])
    IN  IF st.out # "ok" THEN st.out
        ELSE IF st.bytes = bytesAllocated_ THEN "ok" ELSE "abort"

\* Heap::validate up to the mark loop: scanRootsLocked.
HeapValidate ==
    /\ pc = "idle"
    /\ UNCHANGED notHeap
    /\ StartOp
    /\ LET r == scanRootsLocked
       IN  IF ~r.ok THEN Crash
           ELSE /\ markStack_' = r.stack
                /\ pc' = "validate"
                /\ UNCHANGED <<chunks, chunksBySize, mem, ptrBits, markBits,
                               bytesAllocated_, allocationLimit_, gcPhase_, slots_,
                               free_, handles, rootFields, fresh, pending, last>>

\* One iteration of the loop of Heap::markLocked, called by Heap::validate.
ValidateMarkStep ==
    /\ pc = "validate"
    /\ UNCHANGED notHeap
    /\ UNCHANGED ops
    /\ markStack_ # <<>>
    /\ LET r == markIteration
       IN  IF ~r.ok THEN Crash
           ELSE /\ Len(r.stack) <= MaxMarkStack
                /\ markStack_' = r.stack
                /\ markBits' = r.mark
                /\ UNCHANGED <<chunks, chunksBySize, mem, ptrBits, bytesAllocated_,
                               allocationLimit_, gcPhase_, slots_, free_, handles,
                               rootFields, fresh, pc, pending, last>>

\* The mark stack is empty: the loop of Heap::validate over the chunks and
\* its return.  Locking a std::mutex that the thread owns is undefined: the
\* thread waits for itself or the lock call throws and the process ends.
ValidateChunks ==
    /\ pc = "validate"
    /\ UNCHANGED notHeap
    /\ UNCHANGED ops
    /\ markStack_ = <<>>
    /\ \/ /\ validateChunks = "ok"
          /\ pc' = "idle"
          /\ last' = [op |-> "validate", addr |-> 0, size |-> 0]
          /\ UNCHANGED <<chunks, chunksBySize, mem, ptrBits, markBits,
                         bytesAllocated_, allocationLimit_, gcPhase_, markStack_,
                         slots_, free_, handles, rootFields, fresh, pending>>
       \/ /\ validateChunks = "abort"
          /\ Crash
       \/ /\ validateChunks = "relock"
          /\ pc' \in {"hung", "crashed"}
          /\ UNCHANGED <<chunks, chunksBySize, mem, ptrBits, markBits,
                         bytesAllocated_, allocationLimit_, gcPhase_, markStack_,
                         slots_, free_, handles, rootFields, fresh, pending, last>>

NextValidate == NextHeap \/ HeapValidate \/ ValidateMarkStep \/ ValidateChunks

\* ------------------------------------------------- reading a function entry
\* uintptr_t addition.
AddW(a, b) == (a + b) % WordMod

\* addWouldOverflow on uintptr_t
addWouldOverflow(a, b) == (WordMod - 1) - b < a

\* The addresses of the mapped file: file_.data is FileData.
FileAddrs(data) == FileData .. (FileData + Len(data) - 1)

\* The n addresses from a on.
Range(a, n) == {AddW(a, i) : i \in 0 .. (n - 1)}

\* The byte the file holds at the address a.
FileByte(data, a) == data[a - FileData + 1]

\* Package::stringByIndexLocked on a string that was not read yet: the error,
\* the String and the addresses it read.
stringReads(data, pkg, index) ==
    LET sec == pkg.stringSection
        p == AddW(FileData, sec.offset + index * sec.entrySize)
        offset == readBin(data, p - FileData, 8)
        size == readBin(data, p - FileData + 8, 8)
        dataBegin == AddW(AddW(FileData, sec.offset + sec.entryCount * sec.entrySize),
                          offset)
        dataEnd == dataBegin + size
        stringSectionEnd == FileData + sec.offset + sec.size
    IN  IF index >= sec.entryCount
        THEN [err |-> "bounds", s |-> <<>>, reads |-> {}]
        ELSE IF addWouldOverflow(dataBegin, size)
        THEN [err |-> "string overflow", s |-> <<>>, reads |-> Range(p, kStringEntrySize)]
        ELSE IF dataEnd > stringSectionEnd
        THEN [err |-> "string", s |-> <<>>, reads |-> Range(p, kStringEntrySize)]
        ELSE [err |-> "none",
              s |-> [k \in 1 .. size |->
                        IF dataBegin + k - 1 \in FileAddrs(data)
                        THEN FileByte(data, dataBegin + k - 1) ELSE 0],
              reads |-> Range(p, kStringEntrySize) \cup Range(dataBegin, size)]

\* Package::readTypeList from the type at p on: readType on each.  A read
\* outside the mapped file ends the reading ("outside").
RECURSIVE typeReads(_, _, _, _, _)
typeReads(data, p, end, count, st) ==
    IF count = 0 THEN st
    ELSE IF p >= end THEN [st EXCEPT !.err = "type"]
    ELSE IF p \notin FileAddrs(data)
    THEN [st EXCEPT !.err = "outside", !.reads = @ \cup {p}]
    ELSE IF TypeOfKind(FileByte(data, p)) = "none"
    THEN [st EXCEPT !.err = "type kind", !.reads = @ \cup {p}]
    ELSE typeReads(data, AddW(p, 1), end, count - 1,
                   [st EXCEPT !.types = Append(@, TypeOfKind(FileByte(data, p))),
                              !.reads = @ \cup {p}])

\* Package::readTypeList
typeListReads(data, pkg, count, offset) ==
    LET sec == pkg.typeSection
    IN  typeReads(data,
                  AddW(AddW(FileData, sec.offset + sec.entryCount * sec.entrySize), offset),
                  FileData + sec.offset + sec.size, count,
                  [err |-> "none", types |-> <<>>, reads |-> {}])

\* The Function that `new (heap->allocate(sizeof(Function))) Function` makes.
EmptyFunction ==
    [name |-> <<>>, paramTypes |-> <<>>, returnTypes |-> <<>>, insts |-> <<>>,
     safepoints |-> [frameSize |-> 0, data |-> <<>>]]

\* The bytes copied from the n addresses from a on (0 outside the file).
Copied(data, a, n) ==
    [k \in 1 .. n |-> IF AddW(a, k - 1) \in FileAddrs(data)
                      THEN FileByte(data, AddW(a, k - 1)) ELSE 0]

\* Package::functionByIndexLocked for a function that is not in functions_
\* yet: the error, the Function that functions_[index] holds when it returns
\* or raises, and the addresses it read.
functionReads(data, pkg, index) ==
    LET sec == pkg.functionSection
        p == AddW(FileData, sec.offset + index * sec.entrySize)
        e == readFunctionEntry(data, p - FileData)
        entryReads == Range(p, kFunctionEntrySize)
        name == stringReads(data, pkg, e[1])
        params == typeListReads(data, pkg, e[3], e[2])
        returns == typeListReads(data, pkg, e[5], e[4])
        blob == AddW(FileData, sec.offset + sec.entryCount * sec.entrySize)
        functionSectionEnd == FileData + sec.offset + sec.size
        instBegin == AddW(blob, e[6])
        instEnd == instBegin + e[7]
        safepointsBegin == AddW(blob, e[8])
        safepointsSize == (bytesPerEntry(e[10]) * e[9]) % WordMod
        safepointsEnd == safepointsBegin + safepointsSize
        f1 == [EmptyFunction EXCEPT !.name = name.s]
        f2 == [f1 EXCEPT !.paramTypes = params.types]
        f3 == [f2 EXCEPT !.returnTypes = returns.types]
        f4 == [f3 EXCEPT !.insts = Copied(data, instBegin, e[7])]
        f5 == [f4 EXCEPT !.safepoints =
                  [frameSize |-> e[10],
                   data |-> Copied(data, safepointsBegin, safepointsSize)]]
        r1 == entryReads \cup name.reads
        r2 == r1 \cup params.reads
        r3 == r2 \cup returns.reads
        r4 == r3 \cup Range(instBegin, e[7])
    IN  CASE name.err # "none" ->
                [err |-> name.err, function |-> EmptyFunction, reads |-> r1]
          [] params.err # "none" ->
                [err |-> params.err, function |-> f1, reads |-> r2]
          [] returns.err # "none" ->
                [err |-> returns.err, function |-> f2, reads |-> r3]
          [] addWouldOverflow(instBegin, e[7]) ->
                [err |-> "instructions overflow", function |-> f3, reads |-> r3]
          [] instEnd > functionSectionEnd ->
                [err |-> "instructions", function |-> f3, reads |-> r3]
          [] addWouldOverflow(safepointsBegin, safepointsSize) ->
                [err |-> "safepoints overflow", function |-> f4, reads |-> r4]
          [] safepointsEnd > functionSectionEnd ->
                [err |-> "safepoints", function |-> f4, reads |-> r4]
          [] OTHER ->
                [err |-> "none", function |-> f5,
                 reads |-> r4 \cup Range(safepointsBegin, safepointsSize)]

\* A package file with one function entry e, one instruction byte, one
\* type byte and one string entry se with one byte of string data.
EntryFile(e, se) ==
    LET functionSection ==
            [kind |-> SectionFUNCTION,
             offset |-> kFileHeaderSize + 3 * kSectionHeaderSize,
             size |-> kFunctionEntrySize + 1,
             entryCount |-> 1, entrySize |-> kFunctionEntrySize]
        typeSection ==
            [kind |-> SectionTYPE,
             offset |-> functionSection.offset + functionSection.size,
             size |-> 1, entryCount |-> 0, entrySize |-> 0]
        stringSection ==
            [kind |-> SectionSTRING,
             offset |-> typeSection.offset + typeSection.size,
             size |-> kStringEntrySize + 1,
             entryCount |-> 1, entrySize |-> kStringEntrySize]
    IN  writeBin(4, kMagic) \o writeBin(1, 0) \o writeBin(1, kWordSize) \o writeBin(2, 3)
            \o writeSectionHeader(functionSection) \o writeSectionHeader(typeSection)
            \o writeSectionHeader(stringSection)
            \o writeFunctionEntry(e) \o <<kSysExit>>
            \o <<KindOf("int64")>>
            \o writeBin(8, se[1]) \o writeBin(8, se[2]) \o <<102>>

\* Offsets a file may give: inside the data, one past it, and values that
\* make the address wrap to just below the data and to below the file.
EntryOffsets == {0, 1, WordMod - 1, WordMod - FileData}
EntrySizes == {0, 1, 2}

\* A file made by hand with one function entry is about to be read.
InitEntries ==
    /\ package1 = <<>>
    /\ \E nameIndex \in {0, 1}, typeOffset \in EntryOffsets, typeCount \in {0, 1},
          instOff \in EntryOffsets, instSize \in EntrySizes,
          safepointOffset \in {0, WordMod - 1}, safepointCount \in {0, 1},
          stringOffset \in {0, WordMod - 1}, stringSize \in {0, 1} :
          tmpFile = EntryFile(<<nameIndex, typeOffset, typeCount, 0, 0,
                                instOff, instSize, safepointOffset,
                                safepointCount, 0>>,
                              <<stringOffset, stringSize>>)
    /\ package2 = NoSection
    /\ iopc = "written"
    /\ mu_ = "free"
    /\ ret = NoReturn
    /\ calls = 0

\* package2->functionByIndex(index), with the addresses it reads.
FunctionByIndexReads ==
    /\ iopc = "read"
    /\ calls < MaxCalls
    /\ calls' = calls + 1
    /\ \E index \in 0 .. (Len(package2.functions_) - 1) :
          IF package2.functions_[index + 1] # NullFunction
          THEN /\ ret' = [op |-> "functionByIndex", err |-> "none", reads |-> {},
                          function |-> package2.functions_[index + 1]]
               /\ UNCHANGED package2
          ELSE \E r \in {functionReads(tmpFile, package2, index)} :
                  /\ package2' = [package2 EXCEPT !.functions_[index + 1] = r.function]
                  /\ ret' = [op |-> "functionByIndex", err |-> r.err,
                             reads |-> r.reads,
                             function |-> IF r.err = "none" THEN r.function
                                          ELSE NullFunction]
    /\ UNCHANGED <<package1, tmpFile, mu_, iopc, notPackage>>

NextEntries == ReadFromFile \/ FunctionByIndexReads

\* ------------------------------------------------------------ Handle<T>
\* HandleStorage::freeSlot
freeSlot(slot) ==
    [slots |-> [slots_ EXCEPT ![SlotIndex(slot)] = free_ + 1], free |-> slot]

\* What a Handle operation leaves alone in the heap.
HandleFrame ==
    /\ last' = Idle
    /\ UNCHANGED <<chunks, chunksBySize, mem, ptrBits, markBits, bytesAllocated_,
                   allocationLimit_, gcPhase_, markStack_, rootFields, fresh, pc,
                   pending>>

\* Handle<T>::Handle(Handle&& handle)
HandleMove(h, from) ==
    /\ pc = "idle"
    /\ UNCHANGED notHeap
    /\ StartOp
    /\ h # from
    /\ handles[h] = 0
    /\ handles' = [handles EXCEPT ![h] = handles[from], ![from] = 0]
    /\ UNCHANGED <<slots_, free_>>
    /\ HandleFrame

\* Handle<T>::operator=(const Handle& handle)
HandleAssign(h, from) ==
    /\ pc = "idle"
    /\ UNCHANGED notHeap
    /\ StartOp
    /\ IF handles[from] = 0
       THEN IF handles[h] # 0
            THEN /\ slots_' = freeSlot(handles[h]).slots
                 /\ free_' = freeSlot(handles[h]).free
                 /\ handles' = [handles EXCEPT ![h] = 0]
            ELSE UNCHANGED <<slots_, free_, handles>>
       ELSE IF handles[h] = 0
            THEN LET r == allocSlot
                 IN  /\ slots_' = [r.slots EXCEPT ![SlotIndex(r.slot)] =
                                      r.slots[SlotIndex(handles[from])]]
                     /\ free_' = r.free
                     /\ handles' = [handles EXCEPT ![h] = r.slot]
            ELSE /\ slots_' = [slots_ EXCEPT ![SlotIndex(handles[h])] =
                                  slots_[SlotIndex(handles[from])]]
                 /\ UNCHANGED <<free_, handles>>
    /\ HandleFrame

\* Handle<T>::operator=(Handle&& handle)
HandleMoveAssign(h, from) ==
    /\ pc = "idle"
    /\ UNCHANGED notHeap
    /\ StartOp
    /\ IF handles[h] # 0
       THEN /\ slots_' = freeSlot(handles[h]).slots
            /\ free_' = freeSlot(handles[h]).free
       ELSE UNCHANGED <<slots_, free_>>
    /\ handles' = [[handles EXCEPT ![h] = handles[from]] EXCEPT ![from] = 0]
    /\ HandleFrame

\* Handle<T>::reset
HandleReset(h) ==
    /\ pc = "idle"
    /\ UNCHANGED notHeap
    /\ StartOp
    /\ IF handles[h] # 0
       THEN /\ slots_' = freeSlot(handles[h]).slots
            /\ free_' = freeSlot(handles[h]).free
       ELSE UNCHANGED <<slots_, free_>>
    /\ handles' = [handles EXCEPT ![h] = 0]
    /\ HandleFrame

NextHandles ==
    \/ \E size \in {8} : Allocate(size)
    \/ \E h \in 1 .. MaxHandles : \E block \in Values : HandleCreate(h, block)
    \/ \E h \in 1 .. MaxHandles : \E from \in 1 .. MaxHandles : HandleCopy(h, from)
    \/ \E h \in 1 .. MaxHandles : \E from \in 1 .. MaxHandles : HandleMove(h, from)
    \/ \E h \in 1 .. MaxHandles : \E from \in 1 .. MaxHandles : HandleAssign(h, from)
    \/ \E h \in 1 .. MaxHandles : \E from \in 1 .. MaxHandles : HandleMoveAssign(h, from)
    \/ \E h \in 1 .. MaxHandles : HandleReset(h)
    \/ \E h \in 1 .. MaxHandles : HandleDestroy(h)

\* --------------------------------------- two threads on the handle table
\* A thread outside every HandleStorage function.
HandleIdle == [op |-> "idle", pos |-> 0, h |-> 0, stale |-> FALSE, seen |-> <<>>]

InitHandleThreads ==
    /\ slotMu = 0
    /\ hpc = [t \in Threads |-> HandleIdle]

\* What the steps of the handle-table threads leave alone.
HandleThreadFrame ==
    /\ UNCHANGED notHandles
    /\ UNCHANGED <<chunks, chunksBySize, mem, ptrBits, markBits, bytesAllocated_,
                   allocationLimit_, gcPhase_, markStack_, rootFields, fresh,
                   pending, last>>

\* scanRootsLocked calls HandleStorage::accept: the thread is the collector
\* and holds Heap::mu_, so no other thread is in accept.  accept takes no
\* lock of the handle table.
AcceptBegin(t) ==
    /\ pc = "idle"
    /\ hpc[t].op = "idle"
    /\ \A u \in Threads : hpc[u].op # "accept"
    /\ StartOp
    /\ hpc' = [hpc EXCEPT ![t] = [HandleIdle EXCEPT !.op = "accept", !.pos = 1]]
    /\ UNCHANGED <<slotMu, slots_, free_, handles, pc>>
    /\ HandleThreadFrame

\* One turn of the loop of HandleStorage::accept: it reads the slot at the
\* iterator.  A push_back on the deque since the loop began has invalidated
\* the iterator: the read goes on or faults.
AcceptVisit(t) ==
    /\ pc = "idle"
    /\ hpc[t].op = "accept"
    /\ hpc[t].pos <= Len(slots_)
    /\ \/ /\ hpc' = [hpc EXCEPT ![t].pos = @ + 1,
                                ![t].seen = IF slots_[hpc[t].pos] % 2 = 0
                                            THEN Append(@, slots_[hpc[t].pos])
                                            ELSE @]
          /\ pc' = pc
       \/ /\ hpc[t].stale
          /\ pc' = "crashed"
          /\ UNCHANGED hpc
    /\ UNCHANGED <<ops, slotMu, slots_, free_, handles>>
    /\ HandleThreadFrame

\* The loop of HandleStorage::accept ends.
AcceptEnd(t) ==
    /\ pc = "idle"
    /\ hpc[t].op = "accept"
    /\ hpc[t].pos > Len(slots_)
    /\ hpc' = [hpc EXCEPT ![t] = HandleIdle]
    /\ UNCHANGED <<ops, slotMu, slots_, free_, handles, pc>>
    /\ HandleThreadFrame

\* The lock_guard at the head of allocSlot (for the Handle h that is being
\* constructed) and of freeSlot (for the Handle h that is being destroyed).
SlotLock(t, op, h) ==
    /\ pc = "idle"
    /\ hpc[t].op = "idle"
    /\ \A u \in Threads : hpc[u].h # h
    /\ IF op = "allocSlot" THEN handles[h] = 0 ELSE handles[h] # 0
    /\ slotMu = 0
    /\ StartOp
    /\ slotMu' = t
    /\ hpc' = [hpc EXCEPT ![t] = [HandleIdle EXCEPT !.op = op, !.h = h]]
    /\ UNCHANGED <<slots_, free_, handles, pc>>
    /\ HandleThreadFrame

\* HandleStorage::allocSlot after the lock, to its return.
AllocSlotBody(t) ==
    /\ pc = "idle"
    /\ hpc[t].op = "allocSlot"
    /\ LET r == allocSlot
       IN  /\ slots_' = r.slots
           /\ free_' = r.free
           /\ handles' = [handles EXCEPT ![hpc[t].h] = r.slot]
           /\ hpc' = [u \in Threads |->
                         IF u = t THEN [hpc[t] EXCEPT !.op = "store"]
                         ELSE IF hpc[u].op = "accept" /\ Len(r.slots) > Len(slots_)
                         THEN [hpc[u] EXCEPT !.stale = TRUE]
                         ELSE hpc[u]]
    /\ slotMu' = 0
    /\ UNCHANGED <<ops, pc>>
    /\ HandleThreadFrame

\* Handle<T>::Handle(T* block) after allocSlot: *slot_ = block.
HandleStore(t) ==
    /\ pc = "idle"
    /\ hpc[t].op = "store"
    /\ slots_' = [slots_ EXCEPT ![SlotIndex(handles[hpc[t].h])] = rootFields[1]]
    /\ hpc' = [hpc EXCEPT ![t] = HandleIdle]
    /\ UNCHANGED <<ops, slotMu, free_, handles, pc>>
    /\ HandleThreadFrame

\* HandleStorage::freeSlot after the lock, to its return.
FreeSlotBody(t) ==
    /\ pc = "idle"
    /\ hpc[t].op = "freeSlot"
    /\ slots_' = freeSlot(handles[hpc[t].h]).slots
    /\ free_' = freeSlot(handles[hpc[t].h]).free
    /\ handles' = [handles EXCEPT ![hpc[t].h] = 0]
    /\ hpc' = [hpc EXCEPT ![t] = HandleIdle]
    /\ slotMu' = 0
    /\ UNCHANGED <<ops, pc>>
    /\ HandleThreadFrame

NextHandleThreads ==
    \E t \in Threads :
        \/ AcceptBegin(t)
        \/ AcceptVisit(t)
        \/ AcceptEnd(t)
        \/ \E h \in 1 .. MaxHandles : SlotLock(t, "allocSlot", h)
        \/ \E h \in 1 .. MaxHandles : SlotLock(t, "freeSlot", h)
        \/ AllocSlotBody(t)
        \/ HandleStore(t)
        \/ FreeSlotBody(t)

\* ------------------------------------------------------------------ specs
VerifyOff ==
    /\ fn = MakeFunction(<<>>, EntrySignature, NoSafepoints)
    /\ blocks = <<>>
    /\ blockStack = <<>>
    /\ verr = NoError
    /\ trace = <<>>
    /\ edges = {}
    /\ vpc = "off"

InterpOff ==
    /\ entry = MakeFunction(<<>>, EntrySignature, NoSafepoints)
    /\ cur = 0
    /\ ip = 0
    /\ sp = 0
    /\ fp = 0
    /\ stack = <<>>
    /\ out = <<>>
    /\ ipc = "off"

PackageOff ==
    /\ package1 = <<>>
    /\ tmpFile = <<>>
    /\ package2 = NoSection
    /\ iopc = "off"
    /\ mu_ = "free"
    /\ ret = NoReturn
    /\ calls = 0

AssemblerOff ==
    /\ fragments_ = <<>>
    /\ size_ = 0
    /\ labels = <<>>
    /\ uses = {}
    /\ bindings = <<>>
    /\ apc = "off"

LookupOff ==
    /\ entries_ = <<>>
    /\ lkInstOffset = 0
    /\ lkBegin = 0
    /\ lkEnd = 0
    /\ lkResult = 0
    /\ lpc = "off"

TextOff ==
    /\ asmFiles = <<>>
    /\ dis = <<>>
    /\ asmPackage1 = <<>>
    /\ asmPackage2 = <<>>
    /\ lexer = <<>>
    /\ tpc = "off"

ThreadsOff ==
    /\ locals = <<>>
    /\ holder = 0

HandlesOff ==
    /\ slotMu = 0
    /\ hpc = <<>>

\* Every part but the heap at rest.
RestOff(part) ==
    /\ part = "verify" \/ VerifyOff
    /\ part = "interp" \/ InterpOff
    /\ part = "package" \/ PackageOff
    /\ part = "assembler" \/ AssemblerOff
    /\ part = "lookup" \/ LookupOff
    /\ part = "text" \/ TextOff
    /\ part = "threads" \/ ThreadsOff
    /\ part = "handles" \/ HandlesOff

\* The heap and its mutator.
Init == InitHeap /\ RestOff("heap")
Next == NextHeap
Spec == Init /\ [][Next]_vars

\* Function::validate on one function of a package.
InitV == InitHeap /\ InitVerify /\ RestOff("verify")
SpecVerify == InitV /\ [][NextVerify]_vars

\* interpret on one accepted entry function.
InitI == InitHeap /\ InitInterp /\ RestOff("interp")
SpecInterp == InitI /\ [][NextInterp]_vars

\* writeToFile, readFromFile and functionByIndex on one package.
InitP == InitHeap /\ InitPackage /\ RestOff("package")
SpecPackage == InitP /\ [][NextPackage]_vars

\* One Assembler emitting instructions and binding labels.
InitA == InitHeap /\ InitAssembler /\ RestOff("assembler")
SpecAssembler == InitA /\ [][NextAssembler]_vars

\* Safepoints::lookup on one sorted table; the loop keeps iterating while it
\* can.
InitL == InitHeap /\ InitLookup /\ RestOff("lookup")
SpecLookup == InitL /\ [][NextLookup]_vars /\ WF_vars(NextLookup)

\* readFromFile on files whose section headers are made by hand.
InitR == InitHeap /\ InitReadFile /\ RestOff("package")
SpecReadFile == InitR /\ [][ReadFromFile]_vars

\* writePackageAsm and readPackageAsm on one assembled package.
InitT == InitHeap /\ InitText /\ RestOff("text")
SpecText == InitT /\ [][NextText]_vars

\* Two mutator threads allocating, making Handles and storing pointers.
InitTh == InitHeap /\ InitThreads /\ RestOff("threads")
SpecThreads == InitTh /\ [][NextThreads]_vars


\* collectGarbage on one heap graph.  markLocked is a loop of the thread
\* that called collectGarbage: while it has an iteration to make, it makes it.
InitC == InitGraph /\ RestOff("heap")
SpecCollector ==
    InitC /\ [][NextCollector]_vars /\ WF_vars(MarkStep)

\* The heap with Heap::validate among its operations.
SpecValidate == Init /\ [][NextValidate]_vars

\* functionByIndex on files whose function entry is made by hand.
InitE == InitHeap /\ InitEntries /\ RestOff("package")
SpecEntries == InitE /\ [][NextEntries]_vars

\* The operations of Handle<T> on the handle table.
SpecHandles == Init /\ [][NextHandles]_vars

\* Two threads on the handle table: one collects, the other makes and
\* destroys Handles.
InitHT == InitHeap /\ InitHandleThreads /\ RestOff("handles")
SpecHandleThreads == InitHT /\ [][NextHandleThreads]_vars
\* ------------------------------------------------------------- heap claims
\* collectGarbageLocked returns: to collectGarbage's caller, or into the
\* allocate that asked for the collection.
GCReturns == pc = "mark" /\ pc' \in {"idle", "resume"}

\* Heap::allocate returns a block for a size of at least one byte.
AllocReturns ==
    /\ pc' = "idle"
    /\ \/ pc = "idle" /\ ops' # ops
       \/ pc = "resume"
    /\ last'.op = "allocate"
    /\ last'.size >= 1

\* Block b is free: its chunk is gone, or it is on the chunk's free list or
\* in its free frontier, with no pointer bit set and every word zero except
\* a free-list block's first word.
IsFreedBlock(b) ==
    LET c == fromAddress(b)
    IN  \/ c \notin OwnedChunks
        \/ /\ b \in FreeListBlocks(c) \/ b >= chunks[c].freeSpace_
           /\ WordsOfBlock(b, blockSize(b)) \cap ptrBits = {}
           /\ \A w \in WordsOfBlock(b, blockSize(b)) :
                  mem[w] = 0 \/ (w = b /\ b \in FreeListBlocks(c))

\* C1: when a collection returns, every block that was reachable from a
\* registered root through pointer-bit words (interior pointers included) is
\* still allocated -- not on a free list, not in the free frontier, its chunk
\* still owned by the heap -- and every word of it is unchanged.
C1_ReachableSurvives ==
    [][GCReturns =>
          \A b \in Reachable :
              /\ IsAllocatedBlock(b)'
              /\ \A w \in WordsOfBlock(b, blockSize(b)) : mem'[w] = mem[w]]_vars

\* A collection has returned and left allocated a block that no root points
\* to and that a reachable block names by an interior pointer.
C1_Witness ==
    /\ pc = "idle"
    /\ last.op = "collectGarbage"
    /\ \E w \in ptrBits \cap DOMAIN mem :
           /\ IsHeapAddr(mem[w])
           /\ blockContaining(mem[w]) # mem[w]
           /\ blockContaining(mem[w]) \in Reachable \ RootBlocks
           /\ IsAllocatedBlock(blockContaining(mem[w]))

\* C2: when a collection returns, every block that was allocated and not
\* reachable from a root is free: on its chunk's free list or in the free
\* frontier (or its chunk was dropped), its pointer bits clear and its words
\* zero except for the free-list next pointer.
C2_UnreachableFreed ==
    [][GCReturns => \A b \in AllocatedBlocks \ Reachable : IsFreedBlock(b)']_vars

\* A collection has returned, a chunk has a block on its free list, and a
\* block other than the Roots' is still allocated.
C2_Witness ==
    /\ pc = "idle"
    /\ last.op = "collectGarbage"
    /\ \E c \in OwnedChunks : FreeListBlocks(c) # {}
    /\ AllocatedBlocks \ {rootFields[k] : k \in 1 .. Len(rootFields)} # {}

\* C3: allocate(s) with 1 <= s <= kMaxBlockSize returns an address aligned to
\* 8 bytes, in the data area of a chunk the heap owns whose block size is s
\* rounded up to 8, and the block was not allocated when allocate took it.
C3_AllocateFresh ==
    [][AllocReturns =>
          \A a \in Values \cup {last'.addr} :
              a = last'.addr =>
                  LET bs == align(last'.size, kBlockAlignment)
                  IN  /\ a % kBlockAlignment = 0
                      /\ IsHeapAddr(a)'
                      /\ a + bs <= fromAddress(a) + kSize
                      /\ fromAddress(a) \in OwnedChunks'
                      /\ chunks'[fromAddress(a)].blockSize_ = bs
                      /\ a \notin AllocatedBlocks
                      /\ a \in AllocatedBlocks']_vars

\* allocate(9) has returned a block from a chunk's free list, below a block
\* that is still allocated.
C3_Witness ==
    /\ pc = "idle"
    /\ last.op = "allocate"
    /\ last.size = 9
    /\ IsAllocatedBlock(last.addr)
    /\ IsAllocatedBlock(last.addr + blockSize(last.addr))


\* The values of the slots that are in use (low bit clear) and not null, in
\* slot order.
RECURSIVE LiveHandleValues(_, _)
LiveHandleValues(sl, k) ==
    IF k > Len(sl) THEN <<>>
    ELSE IF sl[k] % 2 = 0 /\ sl[k] # 0 THEN <<sl[k]>> \o LiveHandleValues(sl, k + 1)
    ELSE LiveHandleValues(sl, k + 1)

\* C18: HandleStorage::accept passes a slot's value to the visitor exactly
\* when the slot's low bit is 0 and the value is not null.
C18_AcceptSkipsFreeAndNull == HandleRoots(slots_, 1) = LiveHandleValues(slots_, 1)

\* C19: recordWrite(from, to) with from outside every heap chunk is a no-op:
\* it sets no pointer bit and writes no memory.
C19_StackWriteIsNoOp ==
    [][(ops' # ops /\ last'.op = "recordWrite" /\ ~IsMapped(fromAddress(last'.addr)))
          => UNCHANGED <<ptrBits, mem, chunks, pc>>]_vars

\* C20: the block allocate returns, from the free frontier or from a free
\* list, has every word zero and every pointer bit and mark bit clear.
C20_AllocateZeroed ==
    [][AllocReturns =>
          \A a \in Values \cup {last'.addr} :
              a = last'.addr =>
                  \A w \in WordsOfBlock(a, align(last'.size, kBlockAlignment)) :
                      /\ mem'[w] = 0
                      /\ w \notin ptrBits'
                      /\ w \notin markBits']_vars

\* allocate(16) has returned a two-word block from a free list (the frontier
\* lies beyond the block after it) after a collection that swept it.
C20_Witness ==
    /\ pc = "idle"
    /\ last.op = "allocate"
    /\ last.size = 16
    /\ IsAllocatedBlock(last.addr)
    /\ last.addr + 16 < chunks[fromAddress(last.addr)].freeSpace_
    /\ \A w \in WordsOfBlock(last.addr, 16) : mem[w] = 0

\* C31: the mark phase terminates: once markLocked is running, the mark
\* stack eventually becomes empty (or the collection is over), on cyclic
\* graphs and on graphs with interior pointers too.  Runs in which the mark
\* stack grows to MaxMarkStack entries are left aside.
C31_MarkTerminates ==
    (pc = "mark")
        ~> (pc # "mark" \/ markStack_ = <<>> \/ Len(markStack_) >= MaxMarkStack)

\* A value the collector may meet in a root or in a pointer-bit word without
\* leaving the heap's chunks: null, the zero-size sentinel, or an address in
\* a chunk.
Traceable(p) == p \in {0, kZeroAllocAddress} \/ IsMapped(fromAddress(p))

\* C32: a step of a collection -- the scan of the roots, an iteration of the
\* mark loop -- that meets only such values in the roots and in the pointer-bit
\* words touches no address outside the heap's chunks: it does not fault.
C32_NullAndSentinelTraced ==
    [][((CollectGarbage \/ MarkStep)
           /\ \A k \in 1 .. Len(RootValues) : Traceable(RootValues[k])
           /\ \A w \in ptrBits \cap DOMAIN mem : Traceable(mem[w]))
          => pc' # "crashed"]_vars

\* sweepLocked returns (or the process ends in it).
SweepReturns == pc = "mark" /\ markStack_ = <<>> /\ pc' # "mark"

\* Every element of every chunk list, null pointers included.
ListedChunks(lists) ==
    UNION {{lists[s][k] : k \in 1 .. Len(lists[s])} : s \in DOMAIN lists}

RECURSIVE ChunkBytes(_, _)
ChunkBytes(cs, hdrs) ==
    IF cs = {} THEN 0
    ELSE LET c == CHOOSE x \in cs : TRUE
         IN  hdrs[c].bytesAllocated_ + ChunkBytes(cs \ {c}, hdrs)

\* C33: when sweepLocked returns, the chunk lists hold exactly the chunks
\* that had a marked block, each one a valid chunk, and bytesAllocated_ is
\* the sum of their bytesAllocated.
C33_SweepKeepsMarkedChunks ==
    [][SweepReturns =>
          LET kept == {c \in OwnedChunks : hasMark(c, markBits)}
          IN  /\ pc' # "crashed"
              /\ ListedChunks(chunksBySize') = kept
              /\ bytesAllocated_' = ChunkBytes(kept, chunks')]_vars

\* C34: when Heap::validate returns, all mark bits are clear and the mark
\* stack is empty.
C34_ValidateLeavesNoMarks ==
    [][(ValidateChunks /\ pc' = "idle")
           => (markBits' = {} /\ markStack_' = <<>>)]_vars

\* C35: while Heap::validate checks the chunks it never locks a mutex that
\* the calling thread already holds.
C35_ValidateNeverRelocks ==
    [][ValidateChunks => validateChunks # "relock"]_vars

\* The slots on the free list, from the slot a on, following at most n
\* links; -1 stands for a list that has not ended after n links.
RECURSIVE FreeChain(_, _)
FreeChain(a, n) ==
    IF a = 0 THEN <<>>
    ELSE IF n = 0 \/ SlotIndex(a) \notin 1 .. Len(slots_) THEN <<-1>>
    ELSE <<a>> \o FreeChain(slots_[SlotIndex(a)] - (slots_[SlotIndex(a)] % 2), n - 1)

\* C40: every slot of the handle table is owned by exactly one Handle or is
\* exactly once on the free list, never both; the free list ends at 0; a
\* live Handle's slot is a slot of the table; and the slot allocSlot would
\* return is owned by no Handle.
C40_SlotsOwnedOrFree ==
    LET chain == FreeChain(free_, Len(slots_))
    IN  /\ \A k \in 1 .. Len(chain) : chain[k] # -1
        /\ \A i \in 1 .. Len(slots_) :
              LET owners == {h \in 1 .. MaxHandles : handles[h] = SlotAddr(i)}
                  places == {k \in 1 .. Len(chain) : chain[k] = SlotAddr(i)}
              IN  \/ Cardinality(owners) = 1 /\ places = {} /\ slots_[i] % 2 = 0
                  \/ owners = {} /\ Cardinality(places) = 1 /\ slots_[i] % 2 = 1
        /\ \A h \in 1 .. MaxHandles :
              handles[h] # 0 => handles[h] \in {SlotAddr(i) : i \in 1 .. Len(slots_)}
        /\ \A h \in 1 .. MaxHandles : handles[h] # allocSlot.slot

\* Two slots, one on the free list and ending it, the other owned by a
\* Handle that holds a block.
C40_Witness ==
    /\ Len(slots_) = 2
    /\ free_ # 0
    /\ slots_[SlotIndex(free_)] = 1
    /\ \E h \in 1 .. MaxHandles :
          /\ handles[h] # 0
          /\ IsAllocatedBlock(slots_[SlotIndex(handles[h])])

\* C39: when the sweep begins, Chunk::sweep on every chunk of the heap, of
\* every block size, reads and writes only bits and words of the chunk's
\* blocks below its free space.
C39_SweepInsideChunk ==
    (pc = "mark" /\ markStack_ = <<>>)
        => \A c \in OwnedChunks : ChunkSweep(c, chunks[c], mem, ptrBits, markBits).ok

\* --------------------------------------------------------- verifier claims
\* The instruction the k-th record of the trace is about.
TraceInst(k) == InstAt(fn.insts, trace[k].off)

\* validate threw at the instruction of the k-th record of the trace.
Raised(k) ==
    /\ k = Len(trace)
    /\ vpc = "rejected"
    /\ verr.kind \notin {"deadspace", "safepoints"}
    /\ verr.offset = trace[k].off

\* The control-flow successors of the instruction at off, as the interpreter
\* transfers control, and the offsets reachable from offset 0.
Succ(f, off) ==
    LET inst == InstAt(f.insts, off)
        next == off + InstSize(inst.op)
        to == CASE inst.op = "B" -> {off + inst.arg}
                [] inst.op = "BIF" -> {off + inst.arg, next}
                [] inst.op = "RET" -> {}
                [] inst.op = "SYS" /\ inst.arg = kSysExit -> {}
                [] OTHER -> {next}
    IN  {t \in to : t >= 0 /\ t < CodeLength(f.insts)}

RECURSIVE ReachClosure(_, _)
ReachClosure(f, S) ==
    LET T == S \cup UNION {Succ(f, off) : off \in S}
    IN  IF T = S THEN S ELSE ReachClosure(f, T)

ReachableOffsets(f) == ReachClosure(f, {0})

\* The operands the rule of an instruction takes from the abstract stack.
NeedOperands(f, inst) ==
    CASE inst.op \in Arith \cup Logic \cup Compare \cup {"EQ", "NE"} -> 2
      [] inst.op \in {"NEG", "NOT", "BIF", "STOREARG", "STORELOCAL"} -> 1
      [] inst.op = "SYS" /\ inst.arg \in {kSysExit, kSysPrintln} -> 1
      [] inst.op = "CALL" /\ inst.arg < Len(package) -> Len(package[inst.arg + 1].paramTypes)
      [] inst.op = "RET" -> Len(f.returnTypes)
      [] OTHER -> 0

\* C4: when validate returns without raising, every instruction reachable
\* from offset 0 along fall-through and branch edges has been visited.
C4_AllReachableVisited ==
    vpc = "accepted" =>
        \A off \in ReachableOffsets(fn) : \E k \in 1 .. Len(trace) : trace[k].off = off

\* C5: every B or BIF edge that validate lets pass carries the depth, the
\* frame size and the slot types recorded for the block it enters, so all
\* edges into one block carry the same abstract stack.
C5_EdgesAgree ==
    /\ \A e \in edges :
          \E k \in 1 .. Len(blocks) :
              /\ blocks[k].begin = e.target
              /\ blocks[k].types = e.types
              /\ blocks[k].frameSize = e.frameSize
    /\ \A e1, e2 \in edges :
          e1.target = e2.target => e1.types = e2.types /\ e1.frameSize = e2.frameSize

\* An accepted function with two edges into one block, on a non-empty stack.
C5_Witness ==
    /\ vpc = "accepted"
    /\ \E e1, e2 \in edges : e1.from # e2.from /\ e1.target = e2.target /\ e1.types # <<>>

\* C6: in an accepted function the blocks tile [0, insts.length): the first
\* begins at 0, each later one begins at the end of the one before it, and
\* the last one ends at insts.length.
C6_BlocksTile ==
    vpc = "accepted" =>
        /\ blocks[1].begin = 0
        /\ \A k \in 2 .. Len(blocks) : blocks[k].begin = blocks[k - 1].end
        /\ blocks[Len(blocks)].end = CodeLength(fn.insts)

\* C7: SYS EXIT ends a block: in an accepted function, validate has recorded
\* the end of a block one past every SYS EXIT it reached and has walked no
\* further in that block.
C7_SysExitTerminates ==
    vpc = "accepted" =>
        \A k \in 1 .. Len(trace) :
            (TraceInst(k).op = "SYS" /\ TraceInst(k).arg = kSysExit) =>
                /\ \E j \in 1 .. Len(blocks) :
                       blocks[j].end = trace[k].off + InstSize("SYS")
                /\ k < Len(trace) => trace[k + 1].first

\* C8: in an accepted function every LT, LE, GT or GE that validate reached
\* had int64 in both of the top two slots of the abstract stack.
C8_CompareNeedsInt64 ==
    vpc = "accepted" =>
        \A k \in 1 .. Len(trace) :
            TraceInst(k).op \in Compare =>
                LET types == trace[k].types
                IN  /\ Len(types) >= 2
                    /\ types[Len(types)] = "int64"
                    /\ types[Len(types) - 1] = "int64"

IntAddRet ==
    <<[op |-> "INT64", arg |-> 1], [op |-> "ADD", arg |-> 0], [op |-> "RET", arg |-> 0]>>

\* C9: an instruction reached with fewer entries on the abstract stack than
\* its rule takes makes validate raise an error that names the offset of
\* that instruction; `int64 1; add; ret` is rejected at offset 9.
C9_TooFewOperandsRaises ==
    /\ \A k \in 1 .. Len(trace) :
          Len(trace[k].types) < NeedOperands(fn, TraceInst(k)) =>
              Raised(k) /\ verr.kind = "operands"
    /\ fn.insts = IntAddRet =>
          \/ vpc = "loop" /\ trace = <<>>
          \/ vpc = "rejected" /\ verr = [kind |-> "operands", offset |-> 9]

\* `int64 1; add; ret` has been rejected at the offset of add.
C9_Witness ==
    /\ fn.insts = IntAddRet
    /\ vpc = "rejected"
    /\ verr.offset = 9
    /\ Len(trace[Len(trace)].types) = 1

\* The offsets of the reachable CALL and SYS PRINTLN instructions of f.
SafepointInsts(f) ==
    {off \in ReachableOffsets(f) :
        \/ InstAt(f.insts, off).op = "CALL"
        \/ InstAt(f.insts, off) = [op |-> "SYS", arg |-> kSysPrintln]}

\* C16: the table buildSafepoints makes for an accepted function has exactly
\* one entry for each reachable CALL and SYS PRINTLN, with instOffset the
\* instruction's offset plus its size, in strictly increasing order.
C16_SafepointsExact ==
    vpc = "accepted" =>
        LET entries == buildSafepoints(fn).safepoints.entries
        IN  /\ \A off \in SafepointInsts(fn) :
                  Cardinality({k \in 1 .. Len(entries) :
                      entries[k] = off + InstSize(InstAt(fn.insts, off).op)}) = 1
            /\ \A k \in 1 .. Len(entries) :
                  \E off \in SafepointInsts(fn) :
                      entries[k] = off + InstSize(InstAt(fn.insts, off).op)
            /\ \A k \in 1 .. (Len(entries) - 1) : entries[k] < entries[k + 1]

\* The function is one of the programs S1 to S4 as main (no parameters, no
\* return values) with the safepoints buildSafepoints produces for it.
IsScenario ==
    /\ fn.insts \in ScenarioPrograms
    /\ fn.paramTypes = <<>> /\ fn.returnTypes = <<>>
    /\ buildSafepoints(fn).status = "ok"
    /\ fn.safepoints = buildSafepoints(fn).safepoints

\* C30: validate accepts the programs S1 to S4: it raises no ValidateError
\* for a block that ends with SYS EXIT, for a BIF with a forward target, or
\* for a labelled block that falls through into the next label.
C30_ScenariosAccepted == IsScenario => vpc # "rejected"

\* ------------------------------------------------------ interpreter claims
\* The abstract stack validate has before the instruction at off of f, and
\* the change of depth its rule for that instruction makes.
TypesAt(f, off) ==
    LET tr == validateLoop(f, ValidateStart).trace
    IN  tr[CHOOSE k \in 1 .. Len(tr) : tr[k].off = off].types

Visited(f, off) ==
    \E k \in 1 .. Len(validateLoop(f, ValidateStart).trace) :
        validateLoop(f, ValidateStart).trace[k].off = off

VerifierEffect(f, off) ==
    LET inst == InstAt(f.insts, off)
    IN  CASE inst.op = "B" -> 0
          [] inst.op = "BIF" -> -1
          [] OTHER -> Len(Rule(f, inst, TypesAt(f, off)).types) - Len(TypesAt(f, off))

\* C10: a step of the interpreter on an instruction other than CALL and RET
\* changes the depth of the operand stack by the stack effect validate gives
\* the opcode; a step on ADD, SUB, MUL, DIV, MOD, SHL, SHR or ASR goes on at
\* the next instruction and writes no stack word but its result.
C10_StepMatchesVerifier ==
    [][(/\ InCode
        /\ ipc' = "run"
        /\ CurInst.op \notin {"CALL", "RET"}
        /\ Visited(FunctionOf(cur), ip)) =>
           /\ sp - sp' = VerifierEffect(FunctionOf(cur), ip)
           /\ CurInst.op \in Arith =>
                 /\ ip' = ip + InstSize(CurInst.op)
                 /\ \A w \in 1 .. StackWords : w # sp' => stack'[w] = stack[w]]_vars

\* The entry function has a CALL of the function with id callee that ends at
\* offset off.
CallSiteBefore(off, callee) ==
    \E i \in 1 .. Len(entry.insts) :
        /\ OffsetOf(entry.insts, i + 1) = off
        /\ entry.insts[i] = [op |-> "CALL", arg |-> callee - 1]

\* C11: when a callee whose parameters are p words and whose return values
\* are r words executes RET, execution resumes after the CALL with the
\* caller's fp and fn restored, sp is its value just before the CALL plus p
\* minus r, and the top r words are the callee's top r words in order; a RET
\* in the frame whose saved ip is null returns from interpret.  Every value
\* is pushed as one word, and the CALL put its frame just below the caller's
\* sp, so the sp before the CALL is the callee's fp plus the frame's 4 words.
C11_RetRestoresCaller ==
    [][(InCode /\ CurInst.op = "RET" /\ ipc' \in {"run", "returned"}) =>
          LET p == Len(FunctionOf(cur).paramTypes)
              r == Len(FunctionOf(cur).returnTypes)
              before == fp + 4
          IN  IF stack[fp + 1] = 0 THEN ipc' = "returned"
              ELSE /\ ipc' = "run"
                   /\ cur' = EntryId
                   /\ fp' = StackWords - 3
                   /\ CallSiteBefore(ip', cur)
                   /\ sp' = before + p - r
                   /\ \A k \in 0 .. r - 1 : stack'[sp' + k] = stack[sp + k]]_vars

\* The call scenario has run to its exit.
C11_ScenarioPrinted == entry.insts = ScenarioCall /\ ipc = "exited"
C11_ScenarioPrints15 == C11_ScenarioPrinted => out = <<"1", "5", "\n">>

\* validate gives the result of the instruction at ip the type bool.
ResultIsBool ==
    LET r == Rule(FunctionOf(cur), CurInst, TypesAt(FunctionOf(cur), ip))
    IN  r.err = "ok" /\ r.types # <<>> /\ r.types[Len(r.types)] = "bool"

\* C12: an opcode whose result type is bool (TRUE, FALSE, the comparisons,
\* and AND, OR, XOR, NOT on bool operands) leaves 0 or 1 in the result word;
\* NOT of 1 is 0 and NOT of 0 is 1.
C12_BoolResultIsBit ==
    [][(/\ InCode
        /\ ipc' = "run"
        /\ CurInst.op \in Logic \cup Compare \cup {"EQ", "NE", "NOT", "TRUE", "FALSE"}
        /\ Visited(FunctionOf(cur), ip)
        /\ ResultIsBool) =>
           /\ stack'[sp'] \in {0, 1}
           /\ (CurInst.op = "NOT" /\ stack[sp] \in {0, 1}) => stack'[sp'] = 1 - stack[sp]]_vars

\* C13: at every instruction of an execution of an accepted function, the
\* operand words between fp and sp are at most the frameSize() of the
\* function's Safepoints.
C13_FrameWithinFrameSize == ipc = "run" => fp - sp <= frameSizeOf(cur)

\* The decimal text of a signed 64-bit integer.
SignedDecimal(x) == IF x < 0 THEN <<"-">> \o Decimal(-x) ELSE Decimal(x)

\* The step executes SYS PRINTLN with its operand on the Stack.
PrintlnStep ==
    /\ InCode
    /\ CurInst.op = "SYS"
    /\ CurInst.arg = kSysPrintln
    /\ InStack(sp)
    /\ ipc' = "run"

\* C24: SYS PRINTLN pops one word and writes its value as a signed decimal
\* integer followed by a newline to the output stream: int64 -1; sys println
\* prints -1.
C24_PrintlnSigned ==
    [][PrintlnStep =>
          /\ sp' = sp + 1
          /\ out' = out \o SignedDecimal(ToSigned(stack[sp])) \o <<"\n">>]_vars

\* The step executes a CALL of a function of the package.
CallStep == InCode /\ CurInst.op = "CALL" /\ CurInst.arg < Len(package)

\* C28: the interpreter never reads or writes a stack address below the
\* stack's limit: the frame a CALL stores (the 4 words below sp) is inside
\* the Stack, and so is every operand word a function goes on to push;
\* StackOverflowError is raised before a store below limit.
C28_NoAccessBelowLimit ==
    [][InCode =>
          /\ CallStep => InStack(sp - 4)
          /\ (ipc' = "run" /\ sp' < sp) => InStack(sp')]_vars

\* The word of the current frame that holds the argument the caller pushed
\* for parameter k: validate checks parameter k against the operand that is
\* n - k - 1 below the top at the CALL, and the frame is stored below it.
ArgSlot(k) == fp + 4 + (Len(FunctionOf(cur).paramTypes) - k - 1)

\* The step executes LOADARG or STOREARG of a parameter in a callee, with
\* the arguments and the operand inside the Stack.
ArgStep ==
    /\ InCode
    /\ cur # EntryId
    /\ CurInst.op \in {"LOADARG", "STOREARG"}
    /\ CurInst.arg < Len(FunctionOf(cur).paramTypes)
    /\ InStack(sp) /\ InStack(sp - 1) /\ InStack(fp + 4 + Len(FunctionOf(cur).paramTypes))
    /\ ipc' = "run"

\* C29: inside a callee LOADARG k pushes, and STOREARG k overwrites, the
\* argument word the caller pushed for parameter k in declaration order.
C29_ArgInDeclarationOrder ==
    [][ArgStep =>
          IF CurInst.op = "LOADARG"
          THEN stack'[sp'] = stack[ArgSlot(CurInst.arg)]
          ELSE stack'[ArgSlot(CurInst.arg)] = stack[sp]]_vars

\* ---------------------------------------------------------- package claims
\* What the file gave back so far matches the package that was written.
SameFunctions ==
    /\ Len(package2.functions_) = Len(package1)
    /\ \A i \in 1 .. Len(package1) :
          package2.functions_[i] # NullFunction =>
              /\ package2.functions_[i].name = package1[i].name
              /\ package2.functions_[i].insts = package1[i].insts

\* C14: writing a package with writeToFile and reading the file back with
\* readFromFile succeeds, and gives a package with the same function count
\* and, for every index, a function with the same name and the same
\* instruction bytes.
C14_RoundTrip ==
    /\ iopc \notin {"crashed", "failed"}
    /\ iopc = "read" => SameFunctions

\* A call of functionByName has ended or stopped in this step.
ByNameStep == calls' # calls /\ ret'.op = "functionByName"

\* The package that was written has a function of this name.
HasFunctionNamed(name) == \E i \in 1 .. Len(package1) : package1[i].name = name

\* C21: on a package read from a file, functionByName(name) leaves every
\* function materialized and returns the function named name, or null when
\* the package has none of that name.
C21_FunctionByName ==
    [][ByNameStep =>
          /\ \A i \in 1 .. Len(package2'.functions_) : package2'.functions_[i] # NullFunction
          /\ IF HasFunctionNamed(ret'.name)
             THEN /\ ret'.kind = "function"
                  /\ package2'.functions_[ret'.index + 1].name = ret'.name
             ELSE ret'.kind = "null"]_vars

\* The section headers of the file, as the bytes give them.
HeadersOf(data) ==
    [i \in 1 .. readBin(data, 6, 2) |->
        readSectionHeader(data, kFileHeaderSize + (i - 1) * kSectionHeaderSize)]

\* Where section i of the file should start: after the header table and the
\* sections before it.
RECURSIVE StartOf(_, _)
StartOf(hs, i) ==
    IF i <= 1 THEN kFileHeaderSize + Len(hs) * kSectionHeaderSize
    ELSE StartOf(hs, i - 1) + hs[i - 1].size

\* Sections tightly packed in header order up to the end of the file, and no
\* known kind in two headers.
SectionsWellFormed(data) ==
    LET hs == HeadersOf(data)
    IN  /\ \A i \in 1 .. Len(hs) : hs[i].offset = StartOf(hs, i)
        /\ StartOf(hs, Len(hs) + 1) = Len(data)
        /\ \A i \in 1 .. Len(hs) : \A j \in (i + 1) .. Len(hs) :
               hs[i].kind = hs[j].kind =>
                   hs[i].kind \notin {SectionFUNCTION, SectionTYPE, SectionSTRING}

\* C22: readFromFile accepts a file exactly when its sections are tightly
\* packed in header order, the last one ends at the end of the file and no
\* known kind has two headers; it rejects every other file with a FileError,
\* and a header of unknown kind is no error.
C22_SectionsChecked ==
    iopc # "written" =>
        /\ iopc \in {"read", "failed"}
        /\ iopc = "read" <=> SectionsWellFormed(tmpFile)

\* A file of three sections, one of unknown kind between two known ones, was
\* accepted.
C22_Witness ==
    /\ iopc = "read"
    /\ Len(HeadersOf(tmpFile)) = 3
    /\ HeadersOf(tmpFile)[2].kind = 4
    /\ HeadersOf(tmpFile)[1].kind = SectionTYPE
    /\ HeadersOf(tmpFile)[3].kind = SectionFUNCTION
    /\ HeadersOf(tmpFile)[2].size = 1

\* Package::validate has thrown the ValidateError of a function in this step.
ValidateThrows == calls' # calls /\ ret'.op = "validate" /\ ret'.kind = "ValidateError"

\* C23: the ValidateError that Package::validate propagates carries the path
\* the package was read from: its filename is that path and what() includes
\* it.
C23_ErrorNamesFile ==
    [][ValidateThrows =>
          /\ ret'.filename = kTmpPath
          /\ \E k \in 1 .. Len(ret'.what_) : ret'.what_[k] = kTmpPath]_vars

\* C27: no Package operation locks mu_ while the calling thread holds it, so
\* validate() and functionByName() always run to completion (they return or
\* raise) and never block.
C27_NoSelfDeadlock == iopc # "blocked"

\* C36: on a file that readFromFile accepted, functionByIndex raises or
\* returns having read only addresses of the mapped file.
C36_ReadsInsideFile ==
    (iopc = "read" /\ ret.op = "functionByIndex")
        => ret.reads \subseteq FileAddrs(tmpFile)

\* C37: a functionByIndex that raises leaves the package as it was, with
\* the function's entry in functions_ still null.
C37_RaiseLeavesPackage ==
    [][(FunctionByIndexReads /\ ret'.err # "none") => package2' = package2]_vars

\* -------------------------------------------------------- assembler claims
\* The 32-bit immediate of the branch whose opcode is at offset at, in the
\* instructions finish returns.
ImmediateAt(at) == readInt32(finish(fragments_), at + 1)

\* C15: once its label is bound, the immediate of every B and BIF emitted
\* against the label, before or after the bind and however many branches
\* were chained on the label, is the offset at which the label was bound
\* minus the offset of the branch's opcode byte.
C15_BranchImmediate ==
    \A u \in uses :
        bindings[u.label] >= 0 => ImmediateAt(u.at) = bindings[u.label] - u.at

\* A label bound with two forward branches chained on it in different
\* fragments, and a backward branch to it afterwards.
C15_Witness ==
    \E l \in 1 .. MaxLabels : \E u1, u2, u3 \in uses :
        /\ u1.label = l /\ u2.label = l /\ u3.label = l
        /\ bindings[l] >= 0
        /\ u1.at < u2.at /\ u2.at < bindings[l] /\ bindings[l] <= u3.at
        /\ addrOf(fragments_, u1.at, 1, 0).frag # addrOf(fragments_, u2.at, 1, 0).frag

\* ------------------------------------------------------------ lookup claims
\* The offset asked for is the instOffset of an entry.
HasEntry == \E k \in 1 .. Len(entries_) : entries_[k] = lkInstOffset

\* lookup has returned the index of the entry whose instOffset was asked for.
LookupFound ==
    /\ lpc = "returned"
    /\ lkResult < Len(entries_)
    /\ entryAt(entries_, lkResult) = lkInstOffset

\* C17: on a table of n >= 1 sorted entries, lookup of the instOffset of one
\* of them terminates and returns the index of that entry.
C17_LookupTerminates == HasEntry => <>LookupFound

\* ------------------------------------------------------ assembly text claims
\* The two packages have the same number of functions, and function by
\* function the same instructions, hence the same instruction bytes.
SameInsts(p1, p2) ==
    /\ Len(p1) = Len(p2)
    /\ \A i \in 1 .. Len(p1) : i <= Len(p2) => p1[i].insts = p2[i].insts

\* C25: the text writePackageAsm(P) produces is accepted when it is read
\* back through readPackageAsm, and the package that results has the same
\* number of functions as P and the same instruction bytes in every function.
C25_AsmRoundTrip ==
    tpc = "read" => /\ asmPackage2.err = "none"
                    /\ SameInsts(asmPackage1, asmPackage2.functions)

\* ------------------------------------------------------------ thread claims
\* What a dereference of p reaches is a block that is still allocated.
Dereferenceable(p) == p \in {0, kZeroAllocAddress} \/ IsAllocatedBlock(p)

\* C26: with two mutator threads on the heap, no live Handle and no pointer
\* stored with Ptr<T>::set into a block a Handle holds designates a block
\* that a collection started by a thread's allocate has swept.
C26_NoSweptBlockDereferenced ==
    pc # "crashed" =>
        \A p \in HandleBlocks :
            /\ Dereferenceable(p)
            /\ (IsAllocatedBlock(p) /\ p \in ptrBits) => Dereferenceable(mem[p])

\* C38: every step that reads or writes slots_ or free_ -- a turn of the
\* loop of accept, the body of allocSlot, the body of freeSlot -- is taken
\* by the thread that holds the mutex of the handle table.
C38_SlotsUnderMutex ==
    [][\A t \in Threads :
          (AcceptVisit(t) \/ AllocSlotBody(t) \/ FreeSlotBody(t)) => slotMu = t]_vars

====
